---- MODULE Spec2Model ----
(***************************************************************************)
(* A model of pymor's NumpyVectorArray (pymor/la/numpyvectorarray.py): the *)
(* numpy storage of every array object, which array objects share storage, *)
(* and every operation of the class as it acts on that storage.            *)
(*                                                                         *)
(* A numpy buffer is a block of rows of one dimension whose shape never    *)
(* changes; an array object holds `_array` (a buffer, or a view of the     *)
(* first rows of a buffer) and `_len`.  Vector entries are integers.       *)
(***************************************************************************)
EXTENDS Integers, Sequences, FiniteSets, TLC

VARIABLES heap, arr, last, limit, disc

vars == <<heap, arr, last, limit, disc>>

\* ------------------------------------------------------------------ bounds
\* number of array objects the caller holds
NSlots == 2
\* largest number of storage rows of one buffer
MaxCap == 2
\* largest number of storage rows in the runs on one-dimensional vectors
MaxLong == 3
\* largest vector dimension
MaxDim == 2
\* vector entries range over 0..MaxVal
MaxVal == 1
\* longest index list passed as a selector
MaxSel == 2

Slots == 1..NSlots
BufIds == 1..(NSlots + 1)
Dims == 1..MaxDim
Vals == 0..MaxVal
Rows(d) == [1..d -> Vals]
Alphas == {0 - 1, 0, 1, 2}

\* ------------------------------------------------------------------ selectors
\* An index selector: None, a number, or a list of numbers.
None == [k |-> "none"]
Num(i) == [k |-> "int", i |-> i]
Lst(l) == [k |-> "list", l |-> l]

SeqsUpTo(S, n) == UNION {[1..k -> S] : k \in 0..n}

\* ------------------------------------------------------------------ numpy
\* numpy's normalisation of an index against an axis of n entries
Wrap(i, n) == IF i < 0 THEN i + n ELSE i

\* A[l] for a list l: a new array of the rows named by l (0-based, negative
\* numbers counted from the end of A)
Take(A, l) == [k \in 1..Len(l) |-> A[Wrap(l[k], Len(A)) + 1]]

\* the bound of a slice clipped as Python clips it
Clip(i, n) == IF i < 0 THEN (IF i + n < 0 THEN 0 ELSE i + n) ELSE (IF i > n THEN n ELSE i)

\* A[i:j]
Slice(A, i, j) ==
    LET s == Clip(i, Len(A))
        e == Clip(j, Len(A))
    IN  IF s < e THEN SubSeq(A, s + 1, e) ELSE <<>>

\* the number of rows two operands of p and q rows broadcast to (-1: they do not)
Bcast(p, q) == IF p = q THEN p ELSE IF p = 1 THEN q ELSE IF q = 1 THEN p ELSE 0 - 1

\* row k of A when A is broadcast to n rows
BRow(A, k) == IF Len(A) = 1 THEN A[1] ELSE A[k]

RowAdd(u, v, alpha) == [c \in DOMAIN u |-> u[c] + alpha * v[c]]
RowScal(u, alpha) == [c \in DOMAIN u |-> alpha * u[c]]
RECURSIVE SumTo(_, _)
SumTo(f, n) == IF n = 0 THEN 0 ELSE f[n] + SumTo(f, n - 1)
RowDot(u, v) == SumTo([c \in DOMAIN u |-> u[c] * v[c]], Len(u))

InRange(A) == \A k \in DOMAIN A : \A c \in DOMAIN A[k] : A[k][c] \in Vals

\* ------------------------------------------------------------------ storage
\* A machine state m = [heap, arr]: heap maps a buffer id to [dim, rows];
\* arr maps an array object to [buf, nrows, len, own]: `_array` is the first
\* nrows rows of buffer buf (own: the OWNDATA flag), `_len` is len.
NoBuf == [dim |-> 0, rows |-> <<>>]

dim(m, o) == m.heap[m.arr[o].buf].dim
shape0(m, o) == m.arr[o].nrows
len(m, o) == m.arr[o].len

\* self._array
Array(m, o) == SubSeq(m.heap[m.arr[o].buf].rows, 1, m.arr[o].nrows)
\* self._array[:self._len]
Data(m, o) == SubSeq(Array(m, o), 1, len(m, o))

\* a buffer id no array object refers to
Fresh(m) == CHOOSE b \in DOMAIN m.heap : \A o \in DOMAIN m.arr : m.arr[o].buf # b

\* bind object o to a new buffer holding rows A of dimension d
Bind(m, o, d, A, n) ==
    LET b == Fresh(m)
    IN  [heap |-> [m.heap EXCEPT ![b] = [dim |-> d, rows |-> A]],
         arr |-> [m.arr EXCEPT ![o] = [buf |-> b, nrows |-> Len(A), len |-> n, own |-> TRUE]]]

\* write rows A over the first rows of self._array (in place, through a view)
Store(m, o, A) ==
    LET b == m.arr[o].buf
        old == m.heap[b].rows
    IN  [m EXCEPT !.heap[b].rows = [k \in 1..Len(old) |-> IF k <= Len(A) THEN A[k] ELSE old[k]]]

\* garbage collection: buffers no object refers to are dropped and the live
\* ones renumbered in the order of the objects holding them
RECURSIVE Renumber(_, _, _)
Renumber(m, o, seen) ==
    IF o > Len(m.arr) THEN seen
    ELSE IF \E k \in 1..Len(seen) : seen[k] = m.arr[o].buf THEN Renumber(m, o + 1, seen)
    ELSE Renumber(m, o + 1, Append(seen, m.arr[o].buf))

Collect(m) ==
    LET seen == Renumber(m, 1, <<>>)
        new(b) == CHOOSE k \in 1..Len(seen) : seen[k] = b
    IN  [heap |-> [b \in DOMAIN m.heap |-> IF b <= Len(seen) THEN m.heap[seen[b]] ELSE NoBuf],
         arr |-> [o \in DOMAIN m.arr |-> [m.arr[o] EXCEPT !.buf = new(m.arr[o].buf)]]]

Ok(m, ret) == [heap |-> m.heap, arr |-> m.arr, err |-> "none", ret |-> ret]
Raise(m, e) == [heap |-> m.heap, arr |-> m.arr, err |-> e, ret |-> <<>>]
St(r) == [heap |-> r.heap, arr |-> r.arr]

\* ------------------------------------------------------------------ selectors on an array
\* VectorArrayInterface.check_ind: an index is admissible when it lies in
\* [-len, len); a list when each of its entries does
check_ind(m, o, ind) ==
    \/ ind.k = "none"
    \/ ind.k = "int" /\ 0 - len(m, o) <= ind.i /\ ind.i < len(m, o)
    \/ ind.k = "list" /\ \A k \in 1..Len(ind.l) : 0 - len(m, o) <= ind.l[k] /\ ind.l[k] < len(m, o)

\* VectorArrayInterface.len_ind: the number of vectors a selector names
len_ind(m, o, ind) ==
    IF ind.k = "none" THEN len(m, o) ELSE IF ind.k = "int" THEN 1 ELSE Len(ind.l)

\* Python's range(a, b) as a list
Range(a, b) == [k \in 1..(IF b > a THEN b - a ELSE 0) |-> a + k - 1]

\* sorted(S) for a finite set of integers
Sorted(S) == [k \in 1..Cardinality(S) |-> CHOOSE x \in S : Cardinality({y \in S : y < x}) = k - 1]

\* A after `A[l] = V` for a list l (V broadcast over the rows; a row named
\* twice keeps the value written last)
SetList(A, l, V) ==
    [r \in 1..Len(A) |->
        LET hits == {k \in 1..Len(l) : Wrap(l[k], Len(A)) + 1 = r}
        IN  IF hits = {} THEN A[r]
            ELSE BRow(V, CHOOSE k \in hits : \A j \in hits : j <= k)]

\* A after `A[i] = v` for a number i and a row v
SetRow(A, i, v) == [A EXCEPT ![Wrap(i, Len(A)) + 1] = v]

\* a row of dimension 1 broadcast to dimension d
BCols(row, d) == IF Len(row) = d THEN row ELSE [c \in 1..d |-> row[1]]

\* the rows selected by ind the way almost_equal, dot and the norms select
\* them: A[:len], A[ind] for a list, A[ind:ind+1] for a number
Sel2D(m, o, ind) ==
    IF ind.k = "none" THEN Data(m, o)
    ELSE IF ind.k = "list" THEN Take(Array(m, o), ind.l)
    ELSE Slice(Array(m, o), ind.i, ind.i + 1)

\* ------------------------------------------------------------------ constructors
\* NumpyVectorArray.empty(dim, reserve): `junk` is what the uninitialised
\* storage np.empty returns happens to hold
empty(m, o, d, junk) == Ok(Bind(m, o, d, junk, 0), <<>>)

\* NumpyVectorArray.zeros(dim, count)
zeros(m, o, d, count) ==
    Ok(Bind(m, o, d, [k \in 1..count |-> [c \in 1..d |-> 0]], count), <<>>)

\* NumpyVectorArray(instance) for a list of equally long rows
init(m, o, d, A) == Ok(Bind(m, o, d, A, Len(A)), <<>>)

\* ------------------------------------------------------------------ copy
\* B = A.copy(ind), B bound to object dst
copy(m, self, dst, ind) ==
    IF ~check_ind(m, self, ind) THEN Raise(m, "AssertionError")
    ELSE IF ind.k = "none" THEN Ok(Bind(m, dst, dim(m, self), Data(m, self), len(m, self)), <<>>)
    ELSE LET C == IF ind.k = "int" THEN <<Array(m, self)[Wrap(ind.i, shape0(m, self)) + 1]>>
                  ELSE Take(Array(m, self), ind.l)
         IN  Ok(Bind(m, dst, dim(m, self), C, Len(C)), <<>>)

\* ------------------------------------------------------------------ remove
\* a remaining that leaves out only the first entry of ind
remaining_first_only(m, self, l) ==
    Sorted({i \in 0..(len(m, self) - 1) : l[1] # i})

\* line 104: remaining = sorted(set(xrange(len(self))) - set(ind))
remaining(m, self, l) ==
    Sorted({i \in 0..(len(m, self) - 1) : \A k \in 1..Len(l) : l[k] # i})

\* a remove() that forgets line 99 (self._len = 0)
remove_keeps_len(m, self, ind) ==
    IF ~check_ind(m, self, ind) THEN Raise(m, "AssertionError")
    ELSE IF ind.k = "none" THEN Ok(Bind(m, self, dim(m, self), <<>>, len(m, self)), <<>>)
    ELSE IF ind.k = "list" THEN
        IF Len(ind.l) = 0 THEN Ok(m, <<>>)
        ELSE LET A == Take(Array(m, self), remaining(m, self, ind.l))
             IN  Ok(Bind(m, self, dim(m, self), A, Len(A)), <<>>)
    ELSE IF ~(0 - len(m, self) < ind.i /\ ind.i < len(m, self)) THEN Raise(m, "AssertionError")
    ELSE LET A == Take(Array(m, self), Range(0, ind.i) \o Range(ind.i + 1, len(m, self)))
         IN  Ok(Bind(m, self, dim(m, self), A, Len(A)), <<>>)

\* lines 94-111
remove(m, self, ind) ==
    IF ~check_ind(m, self, ind) THEN Raise(m, "AssertionError")
    ELSE IF ind.k = "none" THEN Ok(Bind(m, self, dim(m, self), <<>>, 0), <<>>)
    ELSE IF ind.k = "list" THEN
        IF Len(ind.l) = 0 THEN Ok(m, <<>>)
        ELSE LET A == Take(Array(m, self), remaining(m, self, ind.l))
             IN  Ok(Bind(m, self, dim(m, self), A, Len(A)), <<>>)
    ELSE IF ~(0 - len(m, self) < ind.i /\ ind.i < len(m, self)) THEN Raise(m, "AssertionError")
    ELSE LET A == Take(Array(m, self), Range(0, ind.i) \o Range(ind.i + 1, len(m, self)))
         IN  Ok(Bind(m, self, dim(m, self), A, Len(A)), <<>>)

\* ------------------------------------------------------------------ append
\* a fill that starts one storage row too early
fill_spare_one_early(m, self, A, k) ==
    [m EXCEPT !.arr[self].len = len(m, self) + k,
              !.heap[m.arr[self].buf].rows =
                  [r \in 1..Len(@) |-> IF r >= len(m, self) /\ r < len(m, self) + k
                                       THEN A[r - len(m, self) + 1] ELSE @[r]]]

\* lines 76, 79 and 87, 90: the rows A written into the spare storage
\* self._array[_len:_len + k], then _len += k
fill_spare(m, self, A, k) ==
    [m EXCEPT !.arr[self].len = len(m, self) + k,
              !.heap[m.arr[self].buf].rows =
                  [r \in 1..Len(@) |-> IF r > len(m, self) /\ r <= len(m, self) + k
                                       THEN A[r - len(m, self)] ELSE @[r]]]

\* lib: whether the numpy of the build lets ndarray.take accept an empty
\* index list (it refuses to cast the empty float array in some versions)
append(m, self, other, o_ind, remove_from_other, lib) ==
    IF ~check_ind(m, other, o_ind) THEN Raise(m, "AssertionError")
    ELSE IF other = self /\ remove_from_other THEN Raise(m, "AssertionError")
    ELSE
    LET n == len(m, self)
        spare == shape0(m, self) - n
        d == dim(m, self)
        od == dim(m, other)
        O == Array(m, other)
        S == Array(m, self)
        grown(A, k) == fill_spare(m, self, A, k)
        stacked(A) == Bind(m, self, d, Data(m, self) \o A, n + Len(A))
        tail(m2, sel) == IF remove_from_other THEN remove(m2, other, sel) ELSE Ok(m2, <<>>)
    IN  IF o_ind.k = "none" THEN
            LET len_other == len(m, other)
            IN  IF len_other <= spare THEN
                    IF (Len(O) = len_other \/ Len(O) = 1) /\ (od = d \/ od = 1)
                    THEN tail(grown([k \in 1..len_other |-> BCols(BRow(O, k), d)], len_other), o_ind)
                    ELSE Raise(m, "ValueError")
                ELSE IF od # d THEN Raise(m, "ValueError")
                ELSE tail(stacked(Data(m, other)), o_ind)
        ELSE
            LET l == IF o_ind.k = "int" THEN <<o_ind.i>> ELSE o_ind.l
                len_other == Len(l)
            IN  IF len_other <= spare THEN
                    IF len_other = 0 /\ ~lib THEN Raise(m, "TypeError")
                    ELSE IF od # d THEN Raise(m, "ValueError")
                    ELSE tail(grown(Take(O, l), len_other), Lst(l))
                ELSE IF od # d THEN Raise(m, "ValueError")
                ELSE tail(stacked(Take(O, l)), Lst(l))

\* ------------------------------------------------------------------ replace
replace(m, self, other, ind, o_ind, remove_from_other) ==
    IF ~check_ind(m, self, ind) \/ ~check_ind(m, other, o_ind) THEN Raise(m, "AssertionError")
    ELSE IF dim(m, self) # dim(m, other) THEN Raise(m, "AssertionError")
    ELSE IF other = self /\ remove_from_other THEN Raise(m, "AssertionError")
    ELSE
    LET O == Array(m, other)
        S == Array(m, self)
        \* lines 141-144: the OWNDATA assertion, then the removal from other
        finish(m2, sel) ==
            IF ~m2.arr[self].own THEN Raise(m2, "AssertionError")
            ELSE IF remove_from_other THEN remove(m2, other, sel)
            ELSE Ok(m2, <<>>)
    IN  IF ind.k = "none" THEN
            IF o_ind.k = "none" THEN
                IF other = self THEN Ok(m, <<>>)
                ELSE IF len(m, other) # len(m, self) THEN Raise(m, "AssertionError")
                ELSE finish([m EXCEPT !.arr[self] = [buf |-> m.arr[other].buf, nrows |-> len(m, other),
                                                     len |-> len(m, other), own |-> FALSE]], o_ind)
            ELSE
                LET l == IF o_ind.k = "int" THEN <<o_ind.i>> ELSE o_ind.l
                IN  IF len(m, self) # Len(l) THEN Raise(m, "AssertionError")
                    ELSE finish(Bind(m, self, dim(m, self), Take(O, l), Len(l)), Lst(l))
        ELSE
            LET V == IF o_ind.k = "none" THEN Data(m, other)
                     ELSE IF o_ind.k = "int" THEN <<O[Wrap(o_ind.i, Len(O)) + 1]>>
                     ELSE Take(O, o_ind.l)
                written == IF ind.k = "int" THEN SetRow(S, ind.i, V[1]) ELSE SetList(S, ind.l, V)
            IN  IF len_ind(m, self, ind) # len_ind(m, other, o_ind) THEN Raise(m, "AssertionError")
                ELSE finish(Store(m, self, written), o_ind)

\* ------------------------------------------------------------------ almost_equal
\* pymor.tools.float_cmp on integer entries with the default tolerances:
\* |a - b| <= atol + rtol * |b| holds exactly when a = b
float_cmp(a, b) == a = b

almost_equal(m, self, other, ind, o_ind) ==
    IF ~check_ind(m, self, ind) \/ ~check_ind(m, other, o_ind) THEN Raise(m, "AssertionError")
    ELSE IF dim(m, self) # dim(m, other) THEN Raise(m, "AssertionError")
    ELSE
    LET A == Sel2D(m, self, ind)
        B == Sel2D(m, other, o_ind)
        n == Bcast(Len(A), Len(B))
    IN  IF n < 0 THEN Raise(m, "ValueError")
        ELSE Ok(m, [k \in 1..n |-> \A c \in 1..dim(m, self) : float_cmp(BRow(A, k)[c], BRow(B, k)[c])])

\* ------------------------------------------------------------------ scal
scal(m, self, alpha, ind) ==
    IF ~check_ind(m, self, ind) THEN Raise(m, "AssertionError")
    ELSE
    LET S == Array(m, self)
    IN  IF ind.k = "none"
        THEN Ok(Store(m, self, [k \in 1..len(m, self) |-> RowScal(S[k], alpha)]), <<>>)
        ELSE IF ind.k = "int"
        THEN Ok(Store(m, self, SetRow(S, ind.i, RowScal(S[Wrap(ind.i, Len(S)) + 1], alpha))), <<>>)
        ELSE Ok(Store(m, self, SetList(S, ind.l, [k \in 1..Len(ind.l) |-> RowScal(Take(S, ind.l)[k], alpha)])), <<>>)

\* ------------------------------------------------------------------ axpy
axpy(m, self, alpha, x, ind, x_ind) ==
    IF ~check_ind(m, self, ind) \/ ~check_ind(m, x, x_ind) THEN Raise(m, "AssertionError")
    ELSE IF dim(m, self) # dim(m, x) THEN Raise(m, "AssertionError")
    ELSE IF alpha = 0 THEN Ok(m, <<>>)
    ELSE
    LET S == Array(m, self)
        X == Array(m, x)
        \* B: two-dimensional unless x_ind is a number, then one row
        B == IF x_ind.k = "none" THEN Data(m, x)
             ELSE IF x_ind.k = "int" THEN <<X[Wrap(x_ind.i, Len(X)) + 1]>>
             ELSE Take(X, x_ind.l)
        B1d == x_ind.k = "int"
        upd(u, v) == IF alpha = 1 THEN [c \in DOMAIN u |-> u[c] + v[c]]
                     ELSE IF alpha = 0 - 1 THEN [c \in DOMAIN u |-> u[c] - v[c]]
                     ELSE [c \in DOMAIN u |-> u[c] + v[c] * alpha]
        \* T op= B for a two-dimensional T: B has to broadcast to the shape of T
        fits(T) == B1d \/ Len(B) = Len(T) \/ Len(B) = 1
        sum(T) == [k \in 1..Len(T) |-> upd(T[k], BRow(B, k))]
    IN  IF ind.k = "none" THEN
            IF fits(Data(m, self)) THEN Ok(Store(m, self, sum(Data(m, self))), <<>>)
            ELSE Raise(m, "ValueError")
        ELSE IF ind.k = "int" THEN
            IF B1d THEN Ok(Store(m, self, SetRow(S, ind.i, upd(S[Wrap(ind.i, Len(S)) + 1], B[1]))), <<>>)
            ELSE Raise(m, "ValueError")
        ELSE
            IF fits(Take(S, ind.l)) THEN Ok(Store(m, self, SetList(S, ind.l, sum(Take(S, ind.l)))), <<>>)
            ELSE Raise(m, "ValueError")

\* ------------------------------------------------------------------ dot
dot(m, self, other, pairwise, ind, o_ind) ==
    IF ~check_ind(m, self, ind) \/ ~check_ind(m, other, o_ind) THEN Raise(m, "AssertionError")
    ELSE IF dim(m, self) # dim(m, other) THEN Raise(m, "AssertionError")
    ELSE
    LET A == Sel2D(m, self, ind)
        B == Sel2D(m, other, o_ind)
        n == Bcast(Len(A), Len(B))
    IN  IF pairwise THEN
            IF n < 0 THEN Raise(m, "ValueError")
            ELSE Ok(m, [k \in 1..n |-> RowDot(BRow(A, k), BRow(B, k))])
        ELSE Ok(m, [i \in 1..Len(A) |-> [j \in 1..Len(B) |-> RowDot(A[i], B[j])]])

\* ------------------------------------------------------------------ the caller
\* The caller holds NSlots array objects; each step is one call of a method
\* of one of them.  The methods that take a second array are called on the
\* first object, with itself or the second object as the other operand.
\* `last` records the call that has just ended: its arguments, the state
\* before it (pre), the exception it raised (err) and the value it returned
\* (ret); Return is the caller dropping that record.
\* The selectors the caller passes to `o`: every admissible selector built
\* from indices in [-len, len) with lists of at most MaxSel entries, and one
\* inadmissible selector (the index len).
Sels(m, o) ==
    {None, Num(len(m, o))}
    \cup {Num(i) : i \in (0 - len(m, o))..(len(m, o) - 1)}
    \cup {Lst(l) : l \in SeqsUpTo((0 - 1)..(len(m, o) - 1), MaxSel)}

\* The selectors passed to the operations that pair vectors (replace,
\* almost_equal, axpy, dot) and to scal: None, the first vector, the last
\* vector counted from the end, and the list of all indices in both orders.
PairSels(m, o) ==
    {None}
    \cup {Num(i) : i \in {0, 0 - 1} \cap (0 - len(m, o))..(len(m, o) - 1)}
    \cup {Lst(l) : l \in {q \in [1..len(m, o) -> 0..(len(m, o) - 1)] :
                              len(m, o) > 0 /\ \A i, j \in 1..Len(q) : i # j => q[i] # q[j]}}

\* The selector pairs passed to an operation that pairs vectors; operands
\* of different dimension are called with one pair (the selectors play no
\* role), an array paired with itself with selectors of the same kind
Pairs(m, self, other) ==
    IF dim(m, self) # dim(m, other) THEN {<<None, None>>}
    ELSE IF self = other THEN {p \in PairSels(m, self) \X PairSels(m, other) : p[1].k = p[2].k}
    ELSE PairSels(m, self) \X PairSels(m, other)

Cur == [heap |-> heap, arr |-> arr]

Idle == [op |-> "idle", self |-> 0, other |-> 0, ind |-> None, o_ind |-> None, flag |-> FALSE,
         alpha |-> 0, err |-> "none", ret |-> <<>>, pre |-> <<>>]

Call(op, self, other, ind, o_ind, flag, alpha, r) ==
    [op |-> op, self |-> self, other |-> other, ind |-> ind, o_ind |-> o_ind, flag |-> flag,
     alpha |-> alpha, err |-> r.err, ret |-> r.ret, pre |-> Cur]

\* the bounds of the model: no buffer in use outgrows `limit` rows or leaves Vals
Bounded(m) == \A o \in DOMAIN m.arr : Len(m.heap[m.arr[o].buf].rows) <= limit /\ InRange(m.heap[m.arr[o].buf].rows)

Step(r, rec) ==
    /\ Bounded(St(r))
    /\ heap' = Collect(St(r)).heap
    /\ arr' = Collect(St(r)).arr
    /\ last' = rec
    /\ UNCHANGED <<limit, disc>>

Blank == [heap |-> [b \in BufIds |-> NoBuf],
          arr |-> [o \in Slots |-> [buf |-> NSlots + 1, nrows |-> 0, len |-> 0, own |-> TRUE]]]

\* every array the caller can have built with dimension in D and at most n
\* storage rows: NumpyVectorArray(data) and zeros(dim, count) hold len = rows;
\* empty(dim, reserve) holds `reserve` rows of whatever the memory held and
\* len 0, and filled with k <= reserve vectors it holds len k
Constructed(D, n) ==
    UNION {{init(Blank, 1, d, A) : A \in SeqsUpTo(Rows(d), n)} : d \in D}
    \cup UNION {{zeros(Blank, 1, d, count) : count \in 0..n} : d \in D}
    \cup UNION {UNION {{Ok(fill_spare(St(empty(Blank, 1, d, junk)), 1, SubSeq(junk, 1, k), k), <<>>)
                          : k \in 0..Len(junk)} : junk \in SeqsUpTo(Rows(d), n)} : d \in D}

\* no discretization is under reduction
NoDisc == [kind |-> "none"]

\* the caller has built its arrays
Start(D, n) ==
    /\ \E made \in [Slots -> Constructed(D, n)] :
         /\ heap = [b \in BufIds |-> IF b \in Slots THEN made[b].heap[made[b].arr[1].buf] ELSE NoBuf]
         /\ arr = [o \in Slots |-> [made[o].arr[1] EXCEPT !.buf = o]]
    /\ last = Idle
    /\ limit = n
    /\ disc = NoDisc

Init == Start(Dims, MaxCap)

\* runs on vectors of dimension 1, with longer arrays
InitLong == Start({1}, MaxLong)

Copy ==
    /\ last.op = "idle"
    /\ \E self \in Slots : \E ind \in Sels(Cur, self), dst \in Slots \ {self} :
           Step(copy(Cur, self, dst, ind), Call("copy", self, dst, ind, None, FALSE, 0, copy(Cur, self, dst, ind)))

AppendCall ==
    /\ last.op = "idle"
    /\ \E self \in {1}, other \in Slots, rfo \in BOOLEAN : \E o_ind \in Sels(Cur, other) :
         \E lib \in IF o_ind = Lst(<<>>) THEN BOOLEAN ELSE {TRUE} :
           Step(append(Cur, self, other, o_ind, rfo, lib),
                Call("append", self, other, None, o_ind, rfo, 0, append(Cur, self, other, o_ind, rfo, lib)))

Remove ==
    /\ last.op = "idle"
    /\ \E self \in Slots : \E ind \in Sels(Cur, self) :
           Step(remove(Cur, self, ind), Call("remove", self, 0, ind, None, FALSE, 0, remove(Cur, self, ind)))

\* the second half of the round trip: A.append(B, o_ind) has returned and the
\* caller removes the appended tail [n, ..., n+k-1] from A again; pre stays
\* the state before the append
AppendThenRemove ==
    /\ last.op = "append" /\ last.err = "none" /\ ~last.flag
    /\ LET n == len(last.pre, last.self)
           k == len(Cur, last.self) - n
           r == remove(Cur, last.self, Lst(Range(n, n + k)))
       IN  Step(r, [last EXCEPT !.op = "append_remove", !.err = r.err])

Replace ==
    /\ last.op = "idle"
    /\ \E self \in {1}, other \in Slots, rfo \in BOOLEAN : \E io \in Pairs(Cur, self, other) :
           Step(replace(Cur, self, other, io[1], io[2], rfo),
                Call("replace", self, other, io[1], io[2], rfo, 0, replace(Cur, self, other, io[1], io[2], rfo)))

AlmostEqual ==
    /\ last.op = "idle"
    /\ \E self \in {1}, other \in Slots : \E io \in Pairs(Cur, self, other) :
           Step(almost_equal(Cur, self, other, io[1], io[2]),
                Call("almost_equal", self, other, io[1], io[2], FALSE, 0, almost_equal(Cur, self, other, io[1], io[2])))

Scal ==
    /\ last.op = "idle"
    /\ \E self \in Slots, alpha \in Alphas : \E ind \in PairSels(Cur, self) :
           Step(scal(Cur, self, alpha, ind), Call("scal", self, 0, ind, None, FALSE, alpha, scal(Cur, self, alpha, ind)))

Axpy ==
    /\ last.op = "idle"
    /\ \E self \in {1}, x \in Slots, alpha \in Alphas : \E io \in Pairs(Cur, self, x) :
           Step(axpy(Cur, self, alpha, x, io[1], io[2]),
                Call("axpy", self, x, io[1], io[2], FALSE, alpha, axpy(Cur, self, alpha, x, io[1], io[2])))

Dot ==
    /\ last.op = "idle"
    /\ \E self \in {1}, other \in Slots, pairwise \in BOOLEAN : \E io \in Pairs(Cur, self, other) :
           Step(dot(Cur, self, other, pairwise, io[1], io[2]),
                Call("dot", self, other, io[1], io[2], pairwise, 0, dot(Cur, self, other, pairwise, io[1], io[2])))

Return ==
    /\ last.op # "idle"
    /\ last' = Idle
    /\ UNCHANGED <<heap, arr, limit, disc>>

Next ==
    \/ Copy
    \/ AppendCall
    \/ Remove
    \/ AppendThenRemove
    \/ Replace
    \/ AlmostEqual
    \/ Scal
    \/ Axpy
    \/ Dot
    \/ Return

Spec == Init /\ [][Next]_vars

NextLong ==
    \/ Copy
    \/ AppendCall
    \/ Remove
    \/ AppendThenRemove
    \/ Return

SpecLong == InitLong /\ [][NextLong]_vars

\* ------------------------------------------------------------------ basis extension
\* pymor/algorithms/basisextension.py.  The caller holds the basis (object 1,
\* unbound when it passes None) and the new vectors U (object 2); objects 3
\* and 4 are the arrays the extension functions create.
BASIS == 1
UARR == 2
NEWB == 3
TMP == 4

\* `basis is None`: the object is bound to no array
IsNone(m, o) == m.heap[m.arr[o].buf].dim = 0

\* a name that loses its array
Unbind(m, o) == Bind(m, o, 0, <<>>, 0)

\* what an extension function returns: the object that is the new basis and
\* the `hierarchic` entry of the data dict
Extended(m, nb) == Ok(m, [basis |-> nb, hierarchic |-> TRUE])

\* the function's local arrays go out of scope when it ends: the array made
\* for a None basis unless it is the one returned, and the temporaries
Leave(r, wasNone) ==
    LET keep(o) == r.err = "none" /\ r.ret.basis = o
        m1 == IF wasNone /\ ~keep(BASIS) THEN Unbind(St(r), BASIS) ELSE St(r)
        m2 == IF ~keep(NEWB) THEN Unbind(m1, NEWB) ELSE m1
        m3 == Unbind(m2, TMP)
    IN  [r EXCEPT !.heap = m3.heap, !.arr = m3.arr]

\* lines 62-63, 143-144: basis = type(U).empty(U.dim, reserve=len(U))
basis_or_empty(m, junk) ==
    IF IsNone(m, BASIS) THEN St(empty(m, BASIS, dim(m, UARR), junk)) ELSE m

\* lines 34-71
trivial_basis_extension(m, U_ind, copy_basis, copy_U, junk, lib) ==
    LET m1 == basis_or_empty(m, junk)
        eq == almost_equal(m1, UARR, BASIS, U_ind, None)
        nb == IF copy_basis THEN NEWB ELSE BASIS
        m2 == IF copy_basis THEN St(copy(m1, BASIS, NEWB, None)) ELSE m1
        ap == append(m2, nb, UARR, U_ind, ~copy_U, lib)
    IN  Leave(IF eq.err # "none" THEN Raise(m1, eq.err)
              ELSE IF \E k \in 1..Len(eq.ret) : eq.ret[k] THEN Raise(m1, "ExtensionError")
              ELSE IF ap.err # "none" THEN ap
              ELSE Extended(St(ap), nb),
              IsNone(m, BASIS))

\* pymor.tools.float_cmp_all(B, U): every entry of U equals the entry of the
\* row B in its column (true when U has no row)
float_cmp_all(B, U) == \A k \in 1..Len(U) : \A c \in 1..Len(B) : float_cmp(B[c], U[k][c])

\* lines 74-110, for a basis and U of one dimension
numpy_trivial_basis_extension(m) ==
    IF IsNone(m, BASIS) THEN Extended(m, UARR)
    ELSE
    LET basis == Data(m, BASIS)
        U == Data(m, UARR)
    IN  Leave(IF \E k \in 1..Len(basis) : float_cmp_all(basis[k], U) THEN Raise(m, "ExtensionError")
              ELSE IF Len(U) # 1 THEN Raise(m, "ValueError")
              ELSE Extended(Bind(m, NEWB, dim(m, BASIS), basis \o <<U[1]>>, Len(basis) + 1), NEWB),
              FALSE)

\* the integer whose square is n
ISqrt(n) == CHOOSE k \in 0..n : k * k = n

\* v / ||v|| for a vector of integer length
Normalized(v) == [c \in DOMAIN v |-> v[c] \div ISqrt(RowDot(v, v))]

\* v minus its projections onto the vectors acc[j], acc[j+1], ...
RECURSIVE Orthogonalized(_, _, _)
Orthogonalized(v, acc, j) ==
    IF j > Len(acc) THEN v
    ELSE Orthogonalized(RowAdd(v, acc[j], 0 - RowDot(v, acc[j])), acc, j + 1)

\* Gram-Schmidt from vector i of A on, acc being the vectors accepted so far:
\* a vector whose residual vanishes is linearly dependent and dropped, every
\* other residual is normalised and kept
RECURSIVE GramSchmidtFrom(_, _, _)
GramSchmidtFrom(A, i, acc) ==
    IF i > Len(A) THEN acc
    ELSE LET w == Orthogonalized(A[i], acc, 1)
         IN  IF RowDot(w, w) = 0 THEN GramSchmidtFrom(A, i + 1, acc)
             ELSE GramSchmidtFrom(A, i + 1, Append(acc, Normalized(w)))

\* pymor.la.gram_schmidt.gram_schmidt(A, offset=offset, copy=False): the
\* first `offset` vectors are the old basis and are skipped; the array is
\* changed in place and shrunk when vectors were dropped
gram_schmidt(m, o, offset) ==
    LET A == Data(m, o)
        G == IF offset >= Len(A) THEN A ELSE GramSchmidtFrom(A, offset + 1, SubSeq(A, 1, offset))
    IN  IF Len(G) = Len(A) THEN Store(m, o, G) ELSE Bind(m, o, dim(m, o), G, Len(G))

\* lines 113-155
gram_schmidt_basis_extension(m, U_ind, copy_basis, copy_U, junk, lib) ==
    LET m1 == basis_or_empty(m, junk)
        basis_length == len(m1, BASIS)
        nb == IF copy_basis THEN NEWB ELSE BASIS
        m2 == IF copy_basis THEN St(copy(m1, BASIS, NEWB, None)) ELSE m1
        ap == append(m2, nb, UARR, U_ind, ~copy_U, lib)
        \* line 150: offset=len(basis), read after the append
        gs == gram_schmidt(St(ap), nb, len(St(ap), BASIS))
    IN  Leave(IF ap.err # "none" THEN ap
              ELSE IF len(gs, nb) <= basis_length THEN Raise(gs, "ExtensionError")
              ELSE Extended(gs, nb),
              IsNone(m, BASIS))

\* NumpyVectorArray.lincomb on the rows A with a two-dimensional array C of
\* coefficients (lines 210-226, ind=None)
lincomb(C, A, d) ==
    [i \in 1..Len(C) |-> [c \in 1..d |-> SumTo([j \in 1..Len(A) |-> C[i][j] * A[j][c]], Len(A))]]

\* the energy the snapshots A have along coordinate c
Energy(A, c) == SumTo([k \in 1..Len(A) |-> A[k][c] * A[k][c]], Len(A))

\* pymor.la.pod.pod(A, modes=modes) for snapshots that each lie on one
\* coordinate axis: the Gram matrix then has one nonzero eigenvalue per axis
\* that carries energy, and the modes are the unit vectors of those axes by
\* falling eigenvalue, the first `modes` of them
pod(A, modes, d) ==
    LET axes == {c \in 1..d : Energy(A, c) > 0}
        before(c) == {b \in axes : Energy(A, b) > Energy(A, c) \/ (Energy(A, b) = Energy(A, c) /\ b < c)}
        n == IF modes < Cardinality(axes) THEN modes ELSE Cardinality(axes)
    IN  [k \in 1..n |-> LET ax == CHOOSE c \in axes : Cardinality(before(c)) = k - 1
                        IN  [c \in 1..d |-> IF c = ax THEN 1 ELSE 0]]

\* lines 158-203, product=None
pod_basis_extension(m, count, copy_basis) ==
    IF IsNone(m, BASIS)
    THEN LET P == pod(Data(m, UARR), count, dim(m, UARR))
         IN  Leave(Extended(Bind(m, NEWB, dim(m, UARR), P, Len(P)), NEWB), FALSE)
    ELSE
    LET basis_length == len(m, BASIS)
        d == dim(m, BASIS)
        nb == IF copy_basis THEN NEWB ELSE BASIS
        m2 == IF copy_basis THEN St(copy(m, BASIS, NEWB, None)) ELSE m
        coeff == dot(m2, UARR, BASIS, FALSE, None, None)
        proj == lincomb(coeff.ret, Data(m2, BASIS), d)
        U_proj_err == [k \in 1..len(m2, UARR) |-> RowAdd(Data(m2, UARR)[k], proj[k], 0 - 1)]
        P == pod(U_proj_err, count, d)
        m3 == Bind(m2, TMP, d, P, Len(P))
        ap == append(m3, nb, TMP, None, FALSE, TRUE)
    IN  Leave(IF coeff.err # "none" THEN Raise(m2, coeff.err)
              ELSE IF ap.err # "none" THEN ap
              ELSE IF len(St(ap), nb) <= basis_length THEN Raise(St(ap), "ExtensionError")
              ELSE Extended(St(ap), nb),
              FALSE)

\* ------------------------------------------------------------------ the caller of the extensions
\* largest number of storage rows of an array in the extension runs
MaxExt == 4

\* a vector on one coordinate axis (the vectors Gram-Schmidt and POD are
\* exact on in integer arithmetic)
OnAxis(v) == Cardinality({c \in DOMAIN v : v[c] # 0}) <= 1

\* the arrays of dimension d the caller can have built from such vectors
AxisArrays(d) ==
    {a \in Constructed({d}, MaxCap) :
        \A k \in 1..Len(a.heap[a.arr[1].buf].rows) : OnAxis(a.heap[a.arr[1].buf].rows[k])}

\* what np.empty((n, d)) may hold
Junk(n, d) == {j \in [1..n -> Rows(d)] : \A k \in 1..n : OnAxis(j[k])}

\* the caller holds a basis (or None) and an array U of the same dimension
InitExt ==
    /\ \E d \in Dims : \E b \in AxisArrays(d) \cup {Ok(Blank, <<>>)}, u \in AxisArrays(d) :
         /\ heap = [i \in 1..(TMP + 1) |-> IF i = BASIS THEN b.heap[b.arr[1].buf]
                                           ELSE IF i = UARR THEN u.heap[u.arr[1].buf] ELSE NoBuf]
         /\ arr = [o \in 1..TMP |-> IF o = BASIS THEN [b.arr[1] EXCEPT !.buf = BASIS]
                                    ELSE IF o = UARR THEN [u.arr[1] EXCEPT !.buf = UARR]
                                    ELSE [buf |-> o, nrows |-> 0, len |-> 0, own |-> TRUE]]
    /\ last = Idle
    /\ limit = MaxExt
    /\ disc = NoDisc

ExtCall(op, U_ind, copy_basis, copy_U, count, r) ==
    [op |-> op, self |-> BASIS, other |-> UARR, ind |-> None, o_ind |-> U_ind, flag |-> copy_basis,
     copy_U |-> copy_U, alpha |-> count, err |-> r.err, ret |-> r.ret, pre |-> Cur]

\* the arguments of trivial_basis_extension and gram_schmidt_basis_extension
ExtArgs(m) ==
    {a \in [U_ind : Sels(m, UARR), copy_basis : BOOLEAN, copy_U : BOOLEAN,
            junk : IF IsNone(m, BASIS) THEN Junk(len(m, UARR), dim(m, UARR)) ELSE {<<>>},
            lib : BOOLEAN] : a.lib \/ a.U_ind = Lst(<<>>)}

TrivialExtension ==
    /\ last.op = "idle"
    /\ \E a \in ExtArgs(Cur) :
         LET r == trivial_basis_extension(Cur, a.U_ind, a.copy_basis, a.copy_U, a.junk, a.lib)
         IN  Step(r, ExtCall("trivial", a.U_ind, a.copy_basis, a.copy_U, 0, r))

NumpyTrivialExtension ==
    /\ last.op = "idle"
    /\ LET r == numpy_trivial_basis_extension(Cur)
       IN  Step(r, ExtCall("numpy_trivial", None, TRUE, TRUE, 0, r))

GramSchmidtExtension ==
    /\ last.op = "idle"
    /\ \E a \in ExtArgs(Cur) :
         LET r == gram_schmidt_basis_extension(Cur, a.U_ind, a.copy_basis, a.copy_U, a.junk, a.lib)
         IN  Step(r, ExtCall("gram_schmidt", a.U_ind, a.copy_basis, a.copy_U, 0, r))

PodExtension ==
    /\ last.op = "idle"
    /\ \E count \in 0..MaxDim, copy_basis \in BOOLEAN :
         LET r == pod_basis_extension(Cur, count, copy_basis)
         IN  Step(r, ExtCall("pod", None, copy_basis, TRUE, count, r))

\* `basis = new_basis`: the caller's basis becomes the array an extension
\* returned
Adopted(m, nb) ==
    IF nb = NEWB THEN Unbind([m EXCEPT !.arr[BASIS] = m.arr[NEWB]], NEWB) ELSE m

\* the first extension put a single nonzero vector v into an empty or None basis
FirstVector ==
    /\ last.op \in {"trivial", "gram_schmidt"} /\ last.err = "none"
    /\ last.o_ind = None
    /\ len(last.pre, BASIS) = 0
    /\ len(last.pre, UARR) = 1
    /\ RowDot(Data(last.pre, UARR)[1], Data(last.pre, UARR)[1]) > 0

\* the caller extends the basis it got by the same vector v once more, v in
\* a new array
ExtendAgain ==
    /\ FirstVector
    /\ \E copy_basis, copy_U \in BOOLEAN :
         LET v == Data(last.pre, UARR)[1]
             m == St(init(Adopted(Cur, last.ret.basis), UARR, Len(v), <<v>>))
             r == IF last.op = "trivial"
                  THEN trivial_basis_extension(m, None, copy_basis, copy_U, <<>>, TRUE)
                  ELSE gram_schmidt_basis_extension(m, None, copy_basis, copy_U, <<>>, TRUE)
         IN  Step(r, [op |-> IF last.op = "trivial" THEN "trivial_again" ELSE "gram_schmidt_again",
                      self |-> BASIS, other |-> UARR, ind |-> None, o_ind |-> None, flag |-> copy_basis,
                      copy_U |-> copy_U, alpha |-> 0, err |-> r.err, ret |-> r.ret,
                      pre |-> Collect(m)])

ExtOps == {"trivial", "numpy_trivial", "gram_schmidt", "pod"}

\* the caller goes on with what the extension left: the new basis when one
\* was returned as a new array, its old basis otherwise
Adopt ==
    /\ last.op \in ExtOps \cup {"trivial_again", "gram_schmidt_again"}
    /\ LET nb == IF last.err = "none" THEN last.ret.basis ELSE BASIS
           m == Unbind(Adopted(Cur, nb), NEWB)
       IN  Step([heap |-> m.heap, arr |-> m.arr], Idle)

NextExt ==
    \/ TrivialExtension
    \/ NumpyTrivialExtension
    \/ GramSchmidtExtension
    \/ PodExtension
    \/ ExtendAgain
    \/ Adopt

SpecExt == InitExt /\ [][NextExt]_vars

\* ------------------------------------------------------------------ what the calls are meant to do
\* the logical vector a selector entry i names: position i, or len + i for i < 0
Pos(i, n) == IF i < 0 THEN n + i ELSE i

\* the vectors of o that ind selects, in selector order
Selected(m, o, ind) ==
    IF ind.k = "none" THEN Data(m, o)
    ELSE IF ind.k = "int" THEN <<Data(m, o)[Pos(ind.i, len(m, o)) + 1]>>
    ELSE [k \in 1..Len(ind.l) |-> Data(m, o)[Pos(ind.l[k], len(m, o)) + 1]]

\* the positions ind selects
Positions(m, o, ind) ==
    IF ind.k = "none" THEN 0..(len(m, o) - 1)
    ELSE IF ind.k = "int" THEN {Pos(ind.i, len(m, o))}
    ELSE {Pos(ind.l[k], len(m, o)) : k \in 1..Len(ind.l)}

NonNegative(ind) ==
    \/ ind.k = "none"
    \/ ind.k = "int" /\ ind.i >= 0
    \/ ind.k = "list" /\ \A k \in 1..Len(ind.l) : ind.l[k] >= 0

\* the rows of A at the positions outside S, in their order
RECURSIVE Kept(_, _, _)
Kept(A, S, k) ==
    IF k > Len(A) THEN <<>>
    ELSE IF (k - 1) \in S THEN Kept(A, S, k + 1)
    ELSE <<A[k]>> \o Kept(A, S, k + 1)

Unchanged(o) == Data(Cur, o) = Data(last.pre, o) /\ dim(Cur, o) = dim(last.pre, o)

\* ------------------------------------------------------------------ C5
\* C5: remove(ind) with a non-negative index or a list of non-negative
\* indices in range deletes exactly the selected vectors: len drops by the
\* number of distinct selected indices, the survivors keep their values and
\* order, the capacity equals the new len; remove() leaves length 0 and the
\* same dim; remove([]) changes nothing.
C5_RemoveDeletesSelected ==
    (last.op = "remove" /\ NonNegative(last.ind) /\ check_ind(last.pre, last.self, last.ind)) =>
        /\ last.err = "none"
        /\ dim(Cur, last.self) = dim(last.pre, last.self)
        /\ IF last.ind = Lst(<<>>)
           THEN /\ Data(Cur, last.self) = Data(last.pre, last.self)
                /\ shape0(Cur, last.self) = shape0(last.pre, last.self)
           ELSE /\ Data(Cur, last.self) =
                       Kept(Data(last.pre, last.self), Positions(last.pre, last.self, last.ind), 1)
                /\ len(Cur, last.self) = len(last.pre, last.self)
                       - Cardinality(Positions(last.pre, last.self, last.ind))
                /\ shape0(Cur, last.self) = len(Cur, last.self)
        /\ (last.ind = None => len(Cur, last.self) = 0)

\* a vector out of the middle of three, and a list naming an index twice
C5_Witness ==
    /\ last.op = "remove" /\ last.err = "none"
    /\ len(last.pre, last.self) = 3
    /\ last.ind = Lst(<<1, 1>>)
    /\ Data(Cur, last.self) = <<<<0>>, <<1>>>>

\* ------------------------------------------------------------------ C3
\* C3: round trip: A.append(B, o_ind) without remove_from_other followed by
\* A.remove([n, ..., n+k-1]) leaves A with its length n and its contents and
\* leaves B unchanged (an append that raises has changed neither).
C3_AppendRemoveRoundTrip ==
    /\ (last.op = "append_remove" /\ dim(last.pre, last.self) = dim(last.pre, last.other)) =>
           /\ last.err = "none"
           /\ len(Cur, last.self) = len(last.pre, last.self)
           /\ Unchanged(last.self)
           /\ Unchanged(last.other)
    /\ (last.op = "append" /\ ~last.flag /\ last.err # "none") =>
           /\ Unchanged(last.self)
           /\ Unchanged(last.other)

\* two vectors of B appended into the spare storage of a non-empty A and removed again
C3_Witness ==
    /\ last.op = "append_remove" /\ last.err = "none"
    /\ last.self # last.other
    /\ len(last.pre, last.self) = 1
    /\ shape0(last.pre, last.self) = 3
    /\ last.o_ind = Lst(<<1, 0>>)
    /\ Data(last.pre, last.self) = <<<<1>>>>
    /\ Data(last.pre, last.other) = <<<<0>>, <<1>>>>

\* ------------------------------------------------------------------ C1
\* C1: for every admissible selector, B = A.copy(ind) holds exactly the
\* selected vectors of A in selector order, in storage of its own.
C1_CopyHoldsSelected ==
    (last.op = "copy" /\ check_ind(last.pre, last.self, last.ind)) =>
        /\ last.err = "none"
        /\ Data(Cur, last.other) = Selected(last.pre, last.self, last.ind)
        /\ arr[last.other].buf # arr[last.self].buf
        /\ arr[last.other].own
        /\ Unchanged(last.self)

\* ------------------------------------------------------------------ C2
\* C2: for arrays of equal dim, whatever spare capacity either has,
\* self.append(other, o_ind) without remove_from_other succeeds, adds the
\* selected vectors of other in selector order behind the vectors of self,
\* which stay as they were, and leaves other unchanged.  (Stated for other
\* distinct from self and a selection of non-negative indices that is not
\* the empty list.)
C2_AppendSucceeds ==
    (/\ last.op = "append" /\ ~last.flag /\ last.self # last.other
     /\ dim(last.pre, last.self) = dim(last.pre, last.other)
     /\ check_ind(last.pre, last.other, last.o_ind)
     /\ NonNegative(last.o_ind) /\ last.o_ind # Lst(<<>>)) =>
        /\ last.err = "none"
        /\ len(Cur, last.self) = len(last.pre, last.self) + len_ind(last.pre, last.other, last.o_ind)
        /\ Data(Cur, last.self) = Data(last.pre, last.self) \o Selected(last.pre, last.other, last.o_ind)
        /\ Unchanged(last.other)

\* ------------------------------------------------------------------ C4
\* C4: ownership transfer: after self.append(other, o_ind,
\* remove_from_other=True) with other distinct from self and o_ind None, a
\* non-negative index or a list of non-negative indices, self has gained the
\* selected vectors, other holds its unselected vectors in their order, and
\* len(other) has dropped by the number of distinct selected indices.
\* (Stated for arrays of equal dim and a selection that is not the empty list.)
C4_AppendMoves ==
    (/\ last.op = "append" /\ last.flag /\ last.self # last.other
     /\ dim(last.pre, last.self) = dim(last.pre, last.other)
     /\ check_ind(last.pre, last.other, last.o_ind)
     /\ NonNegative(last.o_ind) /\ last.o_ind # Lst(<<>>)) =>
        /\ last.err = "none"
        /\ Data(Cur, last.self) = Data(last.pre, last.self) \o Selected(last.pre, last.other, last.o_ind)
        /\ Data(Cur, last.other) =
               Kept(Data(last.pre, last.other), Positions(last.pre, last.other, last.o_ind), 1)
        /\ len(Cur, last.other) = len(last.pre, last.other)
               - Cardinality(Positions(last.pre, last.other, last.o_ind))

\* ------------------------------------------------------------------ C6
\* the selected vectors of self pair up with the selected vectors of other
Paired ==
    /\ check_ind(last.pre, last.self, last.ind)
    /\ check_ind(last.pre, last.other, last.o_ind)
    /\ dim(last.pre, last.self) = dim(last.pre, last.other)
    /\ NonNegative(last.ind) /\ NonNegative(last.o_ind)

SameSize == len_ind(last.pre, last.self, last.ind) = len_ind(last.pre, last.other, last.o_ind)

\* the vectors of self outside the selection are as they were
OthersKept ==
    /\ len(Cur, last.self) = len(last.pre, last.self)
    /\ \A p \in 0..(len(last.pre, last.self) - 1) :
           p \notin Positions(last.pre, last.self, last.ind) =>
               Data(Cur, last.self)[p + 1] = Data(last.pre, last.self)[p + 1]

\* C6: replace(other, ind, o_ind) with selections of equal size succeeds for
\* every combination of selectors, ind=None with o_ind=None included: the
\* k-th selected vector of self becomes the k-th selected vector other held,
\* the other vectors of self and len(self) stay, and other is unchanged
\* without remove_from_other.  (Stated for other distinct from self and
\* non-negative indices.)
C6_ReplaceSucceeds ==
    (last.op = "replace" /\ last.self # last.other /\ Paired /\ SameSize) =>
        /\ last.err = "none"
        /\ OthersKept
        /\ Selected(Cur, last.self, last.ind) = Selected(last.pre, last.other, last.o_ind)
        /\ (~last.flag => Unchanged(last.other))

\* ------------------------------------------------------------------ C7
\* C7: axpy(alpha, x, ind, x_ind) with selections of equal size and distinct
\* indices adds alpha times the k-th selected vector of x to the k-th
\* selected vector of self, for ind None, a number or a list; the other
\* vectors of self, len(self) and x stay; alpha = 0 changes nothing.
\* (Stated for x distinct from self and non-negative indices.)
C7_AxpyAdds ==
    (last.op = "axpy" /\ last.self # last.other /\ Paired /\ SameSize) =>
        /\ last.err = "none"
        /\ OthersKept
        /\ Selected(Cur, last.self, last.ind) =
               [k \in 1..len_ind(last.pre, last.self, last.ind) |->
                   RowAdd(Selected(last.pre, last.self, last.ind)[k],
                          Selected(last.pre, last.other, last.o_ind)[k], last.alpha)]
        /\ Unchanged(last.other)

\* ------------------------------------------------------------------ C8
\* C8: dot(other, pairwise=False, ind, o_ind) returns the matrix of the inner
\* products of the selected vectors of self (rows) with the selected vectors
\* of other (columns); dot(other, pairwise=True, ...) on selections of equal
\* size returns the vector of the inner products of the pairs; no operand is
\* modified.
C8_DotIsGramMatrix ==
    (/\ last.op = "dot"
     /\ check_ind(last.pre, last.self, last.ind)
     /\ check_ind(last.pre, last.other, last.o_ind)
     /\ dim(last.pre, last.self) = dim(last.pre, last.other)
     /\ (last.flag => SameSize)) =>
        /\ last.err = "none"
        /\ Unchanged(last.self) /\ Unchanged(last.other)
        /\ LET A == Selected(last.pre, last.self, last.ind)
               B == Selected(last.pre, last.other, last.o_ind)
           IN  IF last.flag THEN last.ret = [k \in 1..Len(A) |-> RowDot(A[k], B[k])]
               ELSE last.ret = [i \in 1..Len(A) |-> [j \in 1..Len(B) |-> RowDot(A[i], B[j])]]

\* ------------------------------------------------------------------ C9
\* C9: every two-operand operation called with operands of different dim
\* fails and leaves both operands unchanged.
C9_DimMismatchFails ==
    (/\ last.op \in {"append", "replace", "axpy", "dot", "almost_equal"}
     /\ dim(last.pre, last.self) # dim(last.pre, last.other)) =>
        /\ last.err # "none"
        /\ Unchanged(last.self) /\ Unchanged(last.other)

\* ------------------------------------------------------------------ C10
\* C10: dot with pairwise=True, axpy, almost_equal and replace called with
\* selections of different sizes raise an error and leave both operands
\* unchanged.  (Stated for non-negative indices.)
C10_SizeMismatchFails ==
    (/\ last.op \in {"dot", "axpy", "almost_equal", "replace"}
     /\ (last.op = "dot" => last.flag)
     /\ Paired /\ ~SameSize) =>
        /\ last.err # "none"
        /\ Unchanged(last.self) /\ Unchanged(last.other)

\* ------------------------------------------------------------------ C11
\* the vectors of the basis an extension was called with (none for None)
OldBasis == IF IsNone(last.pre, BASIS) THEN <<>> ELSE Data(last.pre, BASIS)

\* the vectors of the basis the extension returned
NewBasis == Data(Cur, last.ret.basis)

\* U holds no storage beyond its vectors and the selection names some of
\* them by non-negative indices
PlainSelection ==
    /\ check_ind(last.pre, UARR, last.o_ind)
    /\ NonNegative(last.o_ind)
    /\ len_ind(last.pre, UARR, last.o_ind) > 0
    /\ shape0(last.pre, UARR) = len(last.pre, UARR)

\* C11: trivial_basis_extension raises ExtensionError whenever any selected
\* vector of U equals any vector of the basis, whatever the lengths and the
\* positions of the equal vectors; otherwise it returns the basis followed
\* by the selected vectors of U in order.  (Stated for a basis that holds
\* vectors, a U without spare storage and a non-empty selection of
\* non-negative indices.)
C11_TrivialRejectsDuplicates ==
    (last.op = "trivial" /\ PlainSelection /\ Len(OldBasis) > 0) =>
        LET S == Selected(last.pre, UARR, last.o_ind)
        IN  IF \E i \in 1..Len(S), j \in 1..Len(OldBasis) : S[i] = OldBasis[j]
            THEN last.err = "ExtensionError"
            ELSE last.err = "none" /\ NewBasis = OldBasis \o S

\* ------------------------------------------------------------------ C12
\* C12: extending an empty or None basis by one nonzero vector v succeeds
\* with a basis of length 1 under the trivial, the Gram-Schmidt and the POD
\* extension; extending the basis obtained by v once more raises
\* ExtensionError under the trivial and the Gram-Schmidt extension, for every
\* setting of copy_basis and copy_U.
C12_SameVectorTwiceFails ==
    /\ (/\ last.op \in {"trivial", "gram_schmidt", "pod"}
        /\ last.o_ind = None /\ PlainSelection
        /\ (last.op = "pod" => last.alpha >= 1)
        /\ Len(OldBasis) = 0
        /\ len(last.pre, UARR) = 1
        /\ RowDot(Data(last.pre, UARR)[1], Data(last.pre, UARR)[1]) > 0) =>
            last.err = "none" /\ Len(NewBasis) = 1
    /\ last.op \in {"trivial_again", "gram_schmidt_again"} => last.err = "ExtensionError"

\* ------------------------------------------------------------------ C13
\* C13: pod_basis_extension raises ExtensionError whenever the POD yields no
\* mode, as it does when every vector of U is zero, with a basis and with
\* basis None; it never returns a basis that is not longer than the one
\* passed in.  (Stated for a U that holds vectors and a request for
\* at least one mode.)
C13_PodFailsWithoutModes ==
    (last.op = "pod" /\ len(last.pre, UARR) > 0 /\ last.alpha >= 1) =>
        /\ (\A k \in 1..len(last.pre, UARR) : RowDot(Data(last.pre, UARR)[k], Data(last.pre, UARR)[k]) = 0)
               => last.err = "ExtensionError"
        /\ last.err = "none" => Len(NewBasis) > Len(OldBasis)

\* ------------------------------------------------------------------ C14
\* C14: whenever an extension function returns with hierarchic = True, the
\* new basis is strictly longer than the old basis and starts with the
\* vectors of the old basis in their order.  (Stated for calls that pass at
\* least one new vector and, for the POD extension, ask for at least one
\* mode.)
C14_HierarchicMeansPrefix ==
    (/\ last.op \in ExtOps /\ last.err = "none" /\ last.ret.hierarchic
     /\ (last.op = "pod" => last.alpha >= 1)
     /\ check_ind(last.pre, UARR, last.o_ind)
     /\ len_ind(last.pre, UARR, last.o_ind) > 0) =>
        /\ Len(NewBasis) > Len(OldBasis)
        /\ SubSeq(NewBasis, 1, Len(OldBasis)) = OldBasis

\* ------------------------------------------------------------------ C15
\* the basis passed in is as it was
BasisUnchanged ==
    IF IsNone(last.pre, BASIS) THEN IsNone(Cur, BASIS) ELSE ~IsNone(Cur, BASIS) /\ Unchanged(BASIS)

\* C15: whenever a basis-extension function raises ExtensionError, the basis
\* passed in and U have the length and the vectors they had before the call,
\* for every setting of copy_basis and copy_U.
C15_FailureChangesNothing ==
    (last.op \in ExtOps /\ last.err = "ExtensionError") =>
        BasisUnchanged /\ Unchanged(UARR)

\* ------------------------------------------------------------------ C16
\* C16: in a successful trivial or Gram-Schmidt extension of a basis, with
\* copy_basis=True the basis passed in is unchanged and the returned basis is
\* another array with storage of its own, with copy_basis=False the returned
\* basis is the array passed in, extended in place; with copy_U=True U is
\* unchanged, with copy_U=False exactly the selected vectors have been
\* removed from U.
C16_FlagsSayWhatIsMutated ==
    (/\ last.op \in {"trivial", "gram_schmidt"} /\ last.err = "none"
     /\ ~IsNone(last.pre, BASIS)) =>
        /\ last.flag => /\ Unchanged(BASIS)
                        /\ last.ret.basis # BASIS
                        /\ arr[last.ret.basis].buf # arr[BASIS].buf
                        /\ arr[last.ret.basis].own
        /\ ~last.flag => /\ last.ret.basis = BASIS
                         /\ Len(NewBasis) >= Len(OldBasis)
                         /\ SubSeq(NewBasis, 1, Len(OldBasis)) = OldBasis
        /\ last.copy_U => Unchanged(UARR)
        /\ ~last.copy_U =>
               Data(Cur, UARR) = Kept(Data(last.pre, UARR), Positions(last.pre, UARR, last.o_ind), 1)

\* ------------------------------------------------------------------ the reductor
\* pymor.reductors.linear.  A discretization d has an operator and a
\* right-hand side, each a list of non-parametric terms (matrices, vectors)
\* with a flag telling whether the coefficients depend on the parameter; the
\* coefficients of a non-parametric combination are 1.  The arrays of the
\* reduction data are held by value: [dim, array (the rows of _array), len].

\* largest number of affine terms of the operator and of the right-hand side
MaxTerms == 2
\* largest number of vectors of a reduced basis
MaxRB == 2

VA(d, rows, n) == [dim |-> d, array |-> rows, len |-> n]

\* the vectors of an array value
Vectors(R) == SubSeq(R.array, 1, R.len)

\* two array values as the objects 1 and 2 of a machine of their own
Machine2(R, U) ==
    [heap |-> <<[dim |-> R.dim, rows |-> R.array], [dim |-> U.dim, rows |-> U.array], NoBuf>>,
     arr |-> <<[buf |-> 1, nrows |-> Len(R.array), len |-> R.len, own |-> TRUE],
               [buf |-> 2, nrows |-> Len(U.array), len |-> U.len, own |-> TRUE]>>]

ValueOf(m, o) == VA(dim(m, o), Array(m, o), len(m, o))

\* the two arrays as a call of append leaves them
Appended(r) == [err |-> r.err, self |-> ValueOf(St(r), 1), other |-> ValueOf(St(r), 2)]

\* R.append(U, remove_from_other=remove_from_other)
va_append(R, U, remove_from_other) ==
    Appended(append(Machine2(R, U), 1, 2, None, remove_from_other, TRUE))

\* A.dot(B, pairwise=False)
va_dot(A, B) == dot(Machine2(A, B), 1, 2, FALSE, None, None).ret

\* space_type.empty(space_dim, reserve=reserve); j is what np.empty left in
\* the storage
va_empty(d, reserve, j) == VA(d, [k \in 1..reserve |-> [c \in 1..d |-> j]], 0)

\* op.apply(RB, [i]) for a matrix operator: the vector A v
apply(A, v) == [r \in 1..Len(A) |-> RowDot(A[r], v)]

\* sum of the vectors vs[1..n], each of dimension d
RECURSIVE VecSum(_, _, _)
VecSum(vs, n, d) == IF n = 0 THEN [c \in 1..d |-> 0] ELSE RowAdd(VecSum(vs, n - 1, d), vs[n], 1)

\* evaluate_coefficients(mu) of an affine combination: the parameter holds
\* the values of the coefficient functionals; without parameter dependence
\* the coefficients are 1
evaluate_coefficients(op, cs) == IF op.parametric THEN cs ELSE [k \in 1..Len(op.operators) |-> 1]

\* d.operator.apply(V) at coefficients cs: sum of cs[k] * A_k v
lincomb_apply(op, cs, v, d) ==
    VecSum([k \in 1..Len(op.operators) |-> RowScal(apply(op.operators[k], v), cs[k])], Len(op.operators), d)

\* d.rhs.as_vector() at coefficients cs: sum of cs[j] * b_j
lincomb_as_vector(rhs, cs, d) ==
    VecSum([j \in 1..Len(rhs.operators) |-> RowScal(rhs.operators[j], cs[j])], Len(rhs.operators), d)

\* lines 74-78, error_product None: U.copy()
riesz_representative(U) == VA(U.dim, Vectors(U), U.len)

\* the pair R, RR after the two appends a1 (to RR) and a2 (to R)
Pair(a1, a2) == [err |-> IF a1.err # "none" THEN a1.err ELSE a2.err, R |-> a2.self, RR |-> a1.self]

\* lines 80-82
append_vector(U, R, RR) == Pair(va_append(RR, riesz_representative(U), TRUE), va_append(R, U, TRUE))

\* a loop of append_vector calls over the vectors Us[i], Us[i + 1], ...; an
\* exception ends it
RECURSIVE append_vectors(_, _, _, _)
RECURSIVE loop_on(_, _, _)
loop_on(Us, i, a) == IF a.err # "none" THEN a ELSE append_vectors(Us, i, a.R, a.RR)

append_vectors(Us, i, R, RR) ==
    IF i > Len(Us) THEN [err |-> "none", R |-> R, RR |-> RR]
    ELSE loop_on(Us, i + 1, append_vector(VA(R.dim, <<Us[i]>>, 1), R, RR))

\* lines 92-102: the residual vectors of the right-hand side
rhs_residuals(d, extends, j) ==
    IF extends.kind # "none" THEN [err |-> "none", R |-> extends.data.R_R, RR |-> extends.data.RR_R]
    ELSE IF ~d.rhs.parametric
    THEN append_vectors(<<lincomb_as_vector(d.rhs, evaluate_coefficients(d.rhs, <<>>), d.dim)>>, 1,
                        va_empty(d.dim, 1, j), va_empty(d.dim, 1, j))
    ELSE append_vectors(d.rhs.operators, 1,
                        va_empty(d.dim, Len(d.rhs.operators), j), va_empty(d.dim, Len(d.rhs.operators), j))

\* no reduction to extend
NoExt == [kind |-> "none"]

\* lines 63-67: old_RB_size = len(extends[1].RB), 0 without extends
old_RB_size(extends) == IF extends.kind # "none" THEN Len(extends.RB) ELSE 0

\* every basis vector, whatever was computed before
new_vectors_all(old, RB) == RB

\* line 121: for i in xrange(old_RB_size, len(RB)), the basis vectors that
\* have no residual vectors yet
new_vectors(old, RB) == [i \in 1..(Len(RB) - old) |-> RB[old + i]]

\* -U
Neg(v) == RowScal(v, 0 - 1)

\* the first error of a sequence of results
FirstErr(rs) ==
    IF \A k \in 1..Len(rs) : rs[k].err = "none" THEN "none"
    ELSE rs[CHOOSE k \in 1..Len(rs) : rs[k].err # "none" /\ \A i \in 1..(k - 1) : rs[i].err = "none"].err

\* lines 115-122, the arrays of the k-th operator term: the old residual
\* vectors are copied over, those of the new basis vectors appended
term_residuals(d, RB, extends, k, j) ==
    LET old == old_RB_size(extends)
        R0 == va_empty(d.dim, Len(RB), j)
        Us == [i \in 1..Len(new_vectors(old, RB)) |-> Neg(apply(d.operator.operators[k], new_vectors(old, RB)[i]))]
    IN  IF old > 0
        THEN loop_on(Us, 1, Pair(va_append(R0, extends.data.RR_Os[k], FALSE),
                                 va_append(R0, extends.data.R_Os[k], FALSE)))
        ELSE append_vectors(Us, 1, R0, R0)

\* the lists R_Os and RR_Os of the pairs ts
Lists(ts) ==
    [err |-> FirstErr(ts), R_Os |-> [k \in 1..Len(ts) |-> ts[k].R], RR_Os |-> [k \in 1..Len(ts) |-> ts[k].RR]]

\* lines 104-122: the residual vectors of the operator
operator_residuals(d, RB, extends, j) ==
    IF Len(RB) = 0
    THEN [err |-> "none", R_Os |-> <<va_empty(d.dim, 0, j)>>, RR_Os |-> <<va_empty(d.dim, 0, j)>>]
    ELSE IF ~d.operator.parametric
    THEN LET Us == [i \in 1..Len(RB) |->
                       Neg(lincomb_apply(d.operator, evaluate_coefficients(d.operator, <<>>), RB[i], d.dim))]
         IN  Lists(<<append_vectors(Us, 1, va_empty(d.dim, Len(RB), j), va_empty(d.dim, Len(RB), j))>>)
    ELSE Lists([k \in 1..Len(d.operator.operators) |-> term_residuals(d, RB, extends, k, j)])

\* np.hstack of matrices given as sequences of rows
RECURSIVE HStack(_, _)
HStack(Ms, n) ==
    IF n = 1 THEN Ms[1]
    ELSE [r \in 1..Len(Ms[1]) |-> HStack(Ms, n - 1)[r] \o Ms[n][r]]

\* np.vstack
RECURSIVE VStack(_, _)
VStack(Ms, n) == IF n = 1 THEN Ms[1] ELSE VStack(Ms, n - 1) \o Ms[n]

\* numpy refuses to stack blocks of different heights
Stackable(Ms) == \A k \in 1..Len(Ms) : Len(Ms[k]) = Len(Ms[1])

\* lines 129-133: estimator_matrix = np.empty(...) filled block by block
assemble(R_RR, R_RO, R_OO, j) ==
    LET n == Len(R_RR) + Len(R_OO)
        rl == Len(R_RR)
    IN  [p \in 1..n |-> [q \in 1..n |->
            IF p <= rl /\ q <= rl THEN R_RR[p][q]
            ELSE IF p > rl /\ q > rl THEN R_OO[p - rl][q - rl]
            ELSE IF p <= rl THEN R_RO[p][q - rl]
            ELSE R_RO[q][p - rl]]]

\* lines 127-133: the blocks stacked and written into the matrix; numpy
\* raises ValueError when they do not fit
blocks(R_RR, ROs, OOs, cols, j) ==
    IF ~Stackable(ROs) \/ \E kk \in 1..Len(OOs) : ~Stackable(OOs[kk]) THEN [err |-> "ValueError", matrix |-> <<>>]
    ELSE IF SumTo([kk \in 1..Len(OOs) |-> Len(OOs[kk][1])], Len(OOs)) # cols THEN [err |-> "ValueError", matrix |-> <<>>]
    ELSE [err |-> "none",
          matrix |-> assemble(R_RR, HStack(ROs, Len(ROs)),
                              VStack([kk \in 1..Len(OOs) |-> HStack(OOs[kk], Len(OOs[kk]))], Len(OOs)), j)]

\* lines 124-133: the Gram matrix of the residual vectors
gram_matrix(R_R, RR_R, R_Os, RR_Os, j) ==
    blocks(va_dot(RR_R, R_R),
           [k \in 1..Len(R_Os) |-> va_dot(RR_R, R_Os[k])],
           [kk \in 1..Len(RR_Os) |-> [k \in 1..Len(R_Os) |-> va_dot(RR_Os[kk], R_Os[k])]],
           SumTo([k \in 1..Len(R_Os) |-> R_Os[k].len], Len(R_Os)), j)

\* lines 135-141: the returned reduction, as far as the estimator goes: the
\* basis the reconstructor holds, the data dict and the estimator matrix
returned(RB, rr, ro, g) ==
    IF g.err # "none" THEN [kind |-> "failed", err |-> g.err]
    ELSE [kind |-> "reduction", err |-> "none", RB |-> RB,
          data |-> [R_R |-> rr.R, RR_R |-> rr.RR, R_Os |-> ro.R_Os, RR_Os |-> ro.RR_Os],
          estimator_matrix |-> g.matrix]

\* lines 124-141 once the residual vectors are there; an exception raised
\* while they were built has ended the call
with_residuals(RB, rr, ro, j) ==
    IF rr.err # "none" THEN [kind |-> "failed", err |-> rr.err]
    ELSE IF ro.err # "none" THEN [kind |-> "failed", err |-> ro.err]
    ELSE returned(RB, rr, ro, gram_matrix(rr.R, rr.RR, ro.R_Os, ro.RR_Os, j))

\* lines 19-141
reduce_stationary_affine_linear(d, RB, extends, j) ==
    with_residuals(RB, rhs_residuals(d, extends, j), operator_residuals(d, RB, extends, j), j)

\* the order of the operator part swapped: x_i * CO_k at position i*ol + k
coefficient_vector_basis_major(CR, CO, x) ==
    CR \o [p \in 1..(Len(CO) * Len(x)) |-> CO[((p - 1) % Len(CO)) + 1] * x[((p - 1) \div Len(CO)) + 1]]

\* line 162: C = np.hstack((CR, np.dot(CO[..., np.newaxis], U.data).ravel()))
coefficient_vector(CR, CO, x) ==
    CR \o [p \in 1..(Len(CO) * Len(x)) |-> CO[((p - 1) \div Len(x)) + 1] * x[((p - 1) % Len(x)) + 1]]

\* C^T M C, the square of induced_norm(M)(C)
norm2(M, C) == SumTo([p \in 1..Len(C) |-> SumTo([q \in 1..Len(C) |-> C[p] * M[p][q] * C[q]], Len(C))], Len(C))

\* lines 149-164: StationaryAffineLinearReducedEstimator.estimate for the
\* solution array U (rows of reduced coefficients) and the parameter mu,
\* returning the square of the estimate
estimate(M, d, U, mu) ==
    IF Len(U) # 1 THEN [err |-> "AssertionError", ret |-> 0]
    ELSE LET CR == IF ~d.rhs.parametric THEN <<1>> ELSE evaluate_coefficients(d.rhs, mu.rhs)
             CO == IF ~d.operator.parametric THEN <<1>> ELSE evaluate_coefficients(d.operator, mu.operator)
             C == coefficient_vector(CR, CO, U[1])
         IN  IF Len(C) # Len(M) THEN [err |-> "ValueError", ret |-> 0]
             ELSE [err |-> "none", ret |-> norm2(M, C)]

\* the reduced discretization reduce_generic_rb returns for the basis RB:
\* the affine structure of d with operators of dim_source len(RB)
reduced_discretization(d, RB) == [d EXCEPT !.dim = Len(RB)]

\* M[indices, :][:, indices]
submatrix(M, indices) ==
    IF \E p \in 1..Len(indices) : indices[p] >= Len(M) THEN [err |-> "IndexError", ret |-> <<>>]
    ELSE [err |-> "none",
          ret |-> [p \in 1..Len(indices) |-> [q \in 1..Len(indices) |-> M[indices[p] + 1][indices[q] + 1]]]]

\* the operator part laid out with the stride of the sub-basis
subbasis_indices_dense(cr, co, old_dim, n) ==
    Range(0, cr) \o [p \in 1..(co * n) |-> ((p - 1) \div n) * n + ((p - 1) % n) + cr]

\* lines 172-173: np.concatenate((np.arange(cr), ((np.arange(co)*old_dim)[..., np.newaxis]
\* + np.arange(dim)).ravel() + cr))
subbasis_indices(cr, co, old_dim, n) ==
    Range(0, cr) \o [p \in 1..(co * n) |-> ((p - 1) \div n) * old_dim + ((p - 1) % n) + cr]

\* lines 166-176: StationaryAffineLinearReducedEstimator.restricted_to_subbasis
\* of the estimator with matrix M
restricted_to_subbasis(M, n, d) ==
    submatrix(M, subbasis_indices(IF ~d.rhs.parametric THEN 1 ELSE Len(d.rhs.operators),
                                  IF ~d.operator.parametric THEN 1 ELSE Len(d.operator.operators),
                                  d.dim, n))

\* ------------------------------------------------------------------ the caller of the reductor
\* the unit vectors and the matrices with a single entry 1: the terms of the
\* affine decompositions
Units(d) == {[c \in 1..d |-> IF c = a THEN 1 ELSE 0] : a \in 1..d}
Elementary(d) == {[r \in 1..d |-> [c \in 1..d |-> IF r = ab[1] /\ c = ab[2] THEN 1 ELSE 0]] : ab \in (1..d) \X (1..d)}

\* affine combinations of one to MaxTerms terms
Affine(terms) == [parametric : BOOLEAN, operators : UNION {[1..k -> terms] : k \in 1..MaxTerms}]

Discretizations(d) == [dim : {d}, operator : Affine(Elementary(d)), rhs : Affine(Units(d))]

\* the reduced bases, the values of coefficient functionals and the entries
\* of reduced solutions the caller uses
Bases(d) == SeqsUpTo(Rows(d), MaxRB)
Coefs == {1, 2}
Xs == {0 - 1, 1}
Mus(d) == [operator : IF d.operator.parametric THEN [1..Len(d.operator.operators) -> Coefs] ELSE {<<>>},
           rhs : IF d.rhs.parametric THEN [1..Len(d.rhs.operators) -> Coefs] ELSE {<<>>}]

\* the caller holds a discretization and no reduction of it yet
InitRed ==
    /\ heap = Blank.heap
    /\ arr = Blank.arr
    /\ last = Idle
    /\ limit = 0
    /\ \E d \in Dims : \E dd \in Discretizations(d) : disc = [kind |-> "stationary", d |-> dd, red |-> NoExt]

\* a call of the reductor has ended: the caller keeps what it returned
Reduced(RB, extends, r) ==
    /\ disc' = [disc EXCEPT !.red = IF r.err = "none" THEN r ELSE @]
    /\ last' = [op |-> "reduce", RB |-> RB, extends |-> extends, err |-> r.err, ret |-> r]
    /\ UNCHANGED <<heap, arr, limit>>

\* reduce_stationary_affine_linear(d, RB), the first reduction
Reduce ==
    /\ last.op = "idle"
    /\ disc.red.kind = "none"
    /\ \E RB \in Bases(disc.d.dim), j \in Vals :
         Reduced(RB, NoExt, reduce_stationary_affine_linear(disc.d, RB, NoExt, j))

\* reduce_stationary_affine_linear(d, RB, extends=(rd, rc, data)) after the
\* basis of the last reduction has grown
ReduceExtending ==
    /\ last.op = "idle"
    /\ disc.red.kind = "reduction"
    /\ \E new \in SeqsUpTo(Rows(disc.d.dim), MaxRB - Len(disc.red.RB)), j \in Vals :
         /\ Len(new) > 0
         /\ Reduced(disc.red.RB \o new, disc.red,
                    reduce_stationary_affine_linear(disc.d, disc.red.RB \o new, disc.red, j))

\* rd.estimate(U, mu) for a reduced solution U of one vector
Estimate ==
    /\ last.op = "idle"
    /\ disc.red.kind = "reduction"
    /\ \E x \in [1..Len(disc.red.RB) -> Xs], mu \in Mus(disc.d) :
         LET r == estimate(disc.red.estimator_matrix, disc.d, <<x>>, mu)
         IN  last' = [op |-> "estimate", x |-> x, mu |-> mu, err |-> r.err, ret |-> r.ret]
    /\ UNCHANGED <<heap, arr, limit, disc>>

\* the extension has returned and the caller restricts the new estimator to
\* a sub-basis of n vectors: rd.estimator.restricted_to_subbasis(n, rd)
RestrictToSubbasis ==
    /\ last.op = "reduce" /\ last.err = "none" /\ last.extends.kind = "reduction"
    /\ \E n \in 0..Len(last.RB) :
         LET r == restricted_to_subbasis(last.ret.estimator_matrix, n,
                                         reduced_discretization(disc.d, last.RB))
         IN  last' = [op |-> "restricted_to_subbasis", dim |-> n, old |-> last.extends,
                      new |-> last.ret, err |-> r.err, ret |-> r.ret]
    /\ UNCHANGED <<heap, arr, limit, disc>>

NextRed ==
    \/ Reduce
    \/ ReduceExtending
    \/ Estimate
    \/ RestrictToSubbasis
    \/ Return

SpecRed == InitRed /\ [][NextRed]_vars

\* ------------------------------------------------------------------ C17
\* the number of affine terms that count: 1 without parameter dependence
terms(op) == IF op.parametric THEN Len(op.operators) ELSE 1

\* C17: a reduction with a basis of N vectors, computed from scratch or
\* through extends, succeeds with a square estimator matrix of side
\* r_rhs + r_op * N, with R_R and RR_R of length r_rhs and every R_Os[k] and
\* RR_Os[k] of length N.
C17_EstimatorMatrixShape ==
    last.op = "reduce" =>
        /\ last.err = "none"
        /\ LET N == Len(last.RB)
               M == last.ret.estimator_matrix
               data == last.ret.data
           IN  /\ Len(M) = terms(disc.d.rhs) + terms(disc.d.operator) * N
               /\ \A p \in 1..Len(M) : Len(M[p]) = Len(M)
               /\ data.R_R.len = terms(disc.d.rhs) /\ data.RR_R.len = terms(disc.d.rhs)
               /\ Len(data.R_Os) = Len(data.RR_Os)
               /\ \A k \in 1..Len(data.R_Os) : data.R_Os[k].len = N /\ data.RR_Os[k].len = N

\* a basis of one vector has grown to two under an operator of two
\* parametric terms, and the reduction was computed through extends
C17_Witness ==
    /\ last.op = "reduce" /\ last.err = "none"
    /\ last.extends.kind = "reduction" /\ Len(last.extends.RB) = 1 /\ Len(last.RB) = 2
    /\ disc.d.operator.parametric /\ Len(disc.d.operator.operators) = 2
    /\ Len(last.ret.estimator_matrix) = terms(disc.d.rhs) + 4

\* ------------------------------------------------------------------ C18
\* the full-order residual b(mu) - A(mu)(V x)
residual(d, RB, x, mu) ==
    LET Vx == VecSum([i \in 1..Len(RB) |-> RowScal(RB[i], x[i])], Len(RB), d.dim)
        b == lincomb_as_vector(d.rhs, evaluate_coefficients(d.rhs, mu.rhs), d.dim)
        AVx == lincomb_apply(d.operator, evaluate_coefficients(d.operator, mu.operator), Vx, d.dim)
    IN  RowAdd(b, AVx, 0 - 1)

\* C18: with the identity error product the squared estimate c^T M c for a
\* reduced solution x and a parameter mu is the squared Euclidean norm of
\* the full-order residual b(mu) - A(mu)(V x); the entry of c at position
\* r_rhs + k*N + i is the k-th operator coefficient times x_i, and row and
\* column r_rhs + k*N + i of the matrix belong to the residual vector
\* -A_k v_i.
C18_EstimateIsResidualNorm ==
    last.op = "estimate" =>
        LET d == disc.d
            RB == disc.red.RB
            N == Len(RB)
            M == disc.red.estimator_matrix
            rl == terms(d.rhs)
            CR == IF d.rhs.parametric THEN last.mu.rhs ELSE <<1>>
            CO == IF d.operator.parametric THEN last.mu.operator ELSE <<1>>
            c == coefficient_vector(CR, CO, last.x)
            Av(k, i) == IF d.operator.parametric THEN apply(d.operator.operators[k], RB[i])
                        ELSE lincomb_apply(d.operator, evaluate_coefficients(d.operator, <<>>), RB[i], d.dim)
            res(p) == Neg(Av(((p - rl - 1) \div N) + 1, ((p - rl - 1) % N) + 1))
        IN  /\ last.err = "none"
            /\ last.ret = RowDot(residual(d, RB, last.x, last.mu), residual(d, RB, last.x, last.mu))
            /\ \A k \in 1..terms(d.operator), i \in 1..N :
                   /\ c[rl + (k - 1) * N + i] = CO[k] * last.x[i]
                   /\ \A q \in (rl + 1)..Len(M) :
                          M[rl + (k - 1) * N + i][q] = RowDot(Neg(Av(k, i)), res(q))

\* an estimate for a basis of two vectors under an operator of two
\* parametric terms, with distinct coefficients and distinct entries of x
\* and a residual that does not vanish
C18_Witness ==
    /\ last.op = "estimate" /\ last.err = "none"
    /\ Len(last.x) = 2 /\ last.x[1] # last.x[2]
    /\ disc.d.operator.parametric /\ Len(disc.d.operator.operators) = 2
    /\ last.mu.operator[1] # last.mu.operator[2]
    /\ last.ret > 0

\* ------------------------------------------------------------------ balanced truncation
\* pymor.reductors.bt.  The discretization is an LTI system of order n whose
\* Gramian factors cf and of and singular values sv (falling, as many as the
\* shorter factor has vectors) compute_sv_U_V has provided; typ is 'lyap'.
\* r and tol are None or Num(i).  A projection basis is held as the list of
\* the indices of the singular vectors it was built from.

\* largest order of the system
MaxN == 3
\* largest singular value
MaxSv == 2
\* largest tolerance
MaxTol == 4

Min2(a, b) == IF a < b THEN a ELSE b

\* r >= the shorter length
too_large_or_equal(r, d) == r >= Min2(d.cf, d.of)

\* line 67: r > min([len(cf), len(of)])
too_large(r, d) == r > Min2(d.cf, d.of)

\* lines 72-76: sv = np.zeros(n) filled with the singular values and padded
\* with the last of them
padded(d) == [i \in 1..d.n |-> IF i <= Len(d.sv) THEN d.sv[i] ELSE d.sv[Len(d.sv)]]

\* sv[-2::-1], the reversal that leaves out the last value
sv_reverse_without_last(sv) == [i \in 1..(Len(sv) - 1) |-> sv[Len(sv) - i]]

\* line 77: sv[-1:0:-1], the values from the last down to the second
sv_reverse(sv) == [i \in 1..(Len(sv) - 1) |-> sv[Len(sv) + 1 - i]]

\* ndarray.cumsum()
cumsum(a) == [i \in 1..Len(a) |-> SumTo(a, i)]

\* a[::-1]
reversed(a) == [i \in 1..Len(a) |-> a[Len(a) + 1 - i]]

\* lines 72-79, typ == 'lyap': bounds = np.zeros(n), bounds[:-1] = 2 * sv_reverse.cumsum()[::-1]
error_bounds(d) ==
    LET c == reversed(cumsum(sv_reverse(padded(d))))
    IN  [i \in 1..d.n |-> IF i < d.n THEN 2 * c[i] ELSE 0]

\* np.argmax of a boolean array: the index (from 0) of the first True, 0
\* when there is none
argmax(b) ==
    IF \E i \in 1..Len(b) : b[i] THEN (CHOOSE i \in 1..Len(b) : b[i] /\ \A k \in 1..(i - 1) : ~b[k]) - 1 ELSE 0

\* line 84: r_tol = np.argmax(bounds <= tol) + 1
r_tol(d, tol) == argmax([i \in 1..d.n |-> error_bounds(d)[i] <= tol]) + 1

\* lines 71-85: the order used
order(d, r, tol) ==
    IF tol = None THEN r.i
    ELSE IF r = None THEN r_tol(d, tol.i) ELSE Min2(r.i, r_tol(d, tol.i))

\* lines 87-102: V and W from the first `n` singular vectors, rescaled ('sr')
\* or orthonormalised without pruning ('bfsr'); the singular vectors are as
\* many as the singular values
projection(d, n) ==
    IF n > Len(d.sv) THEN [err |-> "IndexError", ret |-> <<>>]
    ELSE [err |-> "none", ret |-> [V |-> Range(0, n), W |-> Range(0, n)]]

\* lines 11-102
bt(d, r, tol, method) ==
    IF r = None /\ tol = None THEN [err |-> "AssertionError", ret |-> <<>>]
    ELSE IF r # None /\ ~(0 < r.i /\ r.i < d.n) THEN [err |-> "AssertionError", ret |-> <<>>]
    ELSE IF method \notin {"sr", "bfsr"} THEN [err |-> "AssertionError", ret |-> <<>>]
    ELSE IF r # None /\ too_large(r.i, d) THEN [err |-> "ValueError", ret |-> <<>>]
    ELSE projection(d, order(d, r, tol))

\* ------------------------------------------------------------------ the caller of bt
\* falling sequences of m singular values
SingularValues(m) == {sv \in [1..m -> 0..MaxSv] : \A i \in 1..(m - 1) : sv[i] >= sv[i + 1]}

LTISystems ==
    UNION {UNION {[n : {n}, cf : {cf}, of : {of}, sv : SingularValues(Min2(cf, of))] : cf \in 1..n, of \in 1..n}
           : n \in 1..MaxN}

Orders == {None} \cup {Num(i) : i \in 0..(MaxN + 1)}
Tols == {None} \cup {Num(i) : i \in 0..MaxTol}
Methods == {"sr", "bfsr", "other"}

InitBt ==
    /\ heap = Blank.heap
    /\ arr = Blank.arr
    /\ last = Idle
    /\ limit = 0
    /\ \E d \in LTISystems : disc = [kind |-> "lti", d |-> d]

\* bt(discretization, r=r, tol=tol, typ='lyap', method=method)
Bt ==
    /\ last.op = "idle"
    /\ \E r \in Orders, tol \in Tols, method \in Methods :
         LET res == bt(disc.d, r, tol, method)
         IN  last' = [op |-> "bt", r |-> r, tol |-> tol, method |-> method, err |-> res.err, ret |-> res.ret]
    /\ UNCHANGED <<heap, arr, limit, disc>>

NextBt ==
    \/ Bt
    \/ Return

SpecBt == InitBt /\ [][NextBt]_vars

\* ------------------------------------------------------------------ C19
\* bt was called with an order, no tolerance and one of the two methods
ExplicitOrder == last.op = "bt" /\ last.r # None /\ last.tol = None /\ last.method \in {"sr", "bfsr"}

\* C19, as stated: with an explicit order r and no tolerance, r larger than
\* min(len(cf), len(of)) raises ValueError, and 0 < r <= min(len(cf),
\* len(of)) returns V and W of exactly r vectors each, under 'sr' and 'bfsr'.
C19_OrderAgainstFactors ==
    ExplicitOrder =>
        /\ last.r.i > Min2(disc.d.cf, disc.d.of) => last.err = "ValueError"
        /\ (0 < last.r.i /\ last.r.i <= Min2(disc.d.cf, disc.d.of)) =>
               last.err = "none" /\ Len(last.ret.V) = last.r.i /\ Len(last.ret.W) = last.r.i

\* C19, amended: an order outside 0 < r < n fails the assertion of line 62
\* before the factors are looked at; for 0 < r < n, r larger than
\* min(len(cf), len(of)) raises ValueError and r <= min(len(cf), len(of))
\* returns V and W of exactly r vectors each, under 'sr' and 'bfsr'.
C19_OrderBelowSystemOrder ==
    ExplicitOrder =>
        IF ~(0 < last.r.i /\ last.r.i < disc.d.n) THEN last.err = "AssertionError"
        ELSE IF last.r.i > Min2(disc.d.cf, disc.d.of) THEN last.err = "ValueError"
        ELSE last.err = "none" /\ Len(last.ret.V) = last.r.i /\ Len(last.ret.W) = last.r.i

\* an order equal to the length of the shorter factor was accepted
C19_Witness ==
    /\ ExplicitOrder /\ last.err = "none"
    /\ last.r.i = Min2(disc.d.cf, disc.d.of) /\ last.r.i = 2
    /\ Len(last.ret.V) = 2

\* ------------------------------------------------------------------ C20
\* twice the sum of the singular values sigma_{k+1}, ..., sigma_n
TailBound(sv, k) == 2 * SumTo([i \in 1..(Len(sv) - k) |-> sv[k + i]], Len(sv) - k)

Orthonormal(A) ==
    \A i \in 1..Len(A), k \in 1..Len(A) : RowDot(A[i], A[k]) = (IF i = k THEN 1 ELSE 0)

\* C21: gram_schmidt_basis_extension runs Gram-Schmidt with the length the
\* basis had before the append as offset, for copy_basis=True and for
\* copy_basis=False: the old vectors are kept, and with an orthonormal old
\* basis the returned basis is orthonormal.
C21_GramSchmidtOffsetIsOldLength ==
    (/\ last.op = "gram_schmidt" /\ last.err = "none"
     /\ check_ind(last.pre, UARR, last.o_ind) /\ NonNegative(last.o_ind)
     /\ Orthonormal(OldBasis)) =>
        /\ SubSeq(NewBasis, 1, Len(OldBasis)) = OldBasis
        /\ Orthonormal(NewBasis)

\* ------------------------------------------------------------------ C22
\* C22: after self.replace(other, ind, o_ind) with other another array,
\* returned or raised, self and other do not share storage, and a later scal,
\* axpy or remove on the second array leaves the vectors of the first as they
\* were.  (Stated for an other that holds vectors.)
C22_NoAliasingAfterReplace ==
    /\ (last.op = "replace" /\ last.self # last.other /\ len(last.pre, last.other) > 0) =>
           arr[last.self].buf # arr[last.other].buf
    /\ (last.op \in {"scal", "axpy", "remove"} /\ last.self = 2) =>
           Data(Cur, 1) = Data(last.pre, 1)

\* ------------------------------------------------------------------ C23
\* C23: a negative index i with -len <= i < 0, alone or inside a list, names
\* the logical vector at position len + i, also when the array has spare
\* capacity: remove deletes the named vectors and shortens the array by their
\* number, scal scales exactly the named vectors, and almost_equal and dot
\* with ind = -1 act on exactly one vector, the last valid one.
C23_NegativeIndexCountsFromLen ==
    /\ (last.op = "remove" /\ ~NonNegative(last.ind) /\ check_ind(last.pre, last.self, last.ind)) =>
           /\ last.err = "none"
           /\ Data(Cur, last.self) =
                  Kept(Data(last.pre, last.self), Positions(last.pre, last.self, last.ind), 1)
           /\ len(Cur, last.self) = len(last.pre, last.self)
                  - Cardinality(Positions(last.pre, last.self, last.ind))
    /\ (last.op = "scal" /\ last.ind.k = "int" /\ last.ind.i < 0
            /\ check_ind(last.pre, last.self, last.ind)) =>
           /\ last.err = "none"
           /\ Data(Cur, last.self) =
                  [Data(last.pre, last.self)
                       EXCEPT ![Pos(last.ind.i, len(last.pre, last.self)) + 1] =
                           RowScal(Selected(last.pre, last.self, last.ind)[1], last.alpha)]
    /\ (last.op \in {"almost_equal", "dot"} /\ last.self # last.other
            /\ last.ind.k = "int" /\ last.ind.i < 0 /\ last.o_ind = Num(0)
            /\ (last.op = "dot" => last.flag)
            /\ check_ind(last.pre, last.self, last.ind)
            /\ check_ind(last.pre, last.other, last.o_ind)
            /\ dim(last.pre, last.self) = dim(last.pre, last.other)) =>
           /\ last.err = "none"
           /\ Len(last.ret) = 1
           /\ last.ret[1] =
                  IF last.op = "dot"
                  THEN RowDot(Selected(last.pre, last.self, last.ind)[1],
                              Selected(last.pre, last.other, last.o_ind)[1])
                  ELSE Selected(last.pre, last.self, last.ind)[1]
                           = Selected(last.pre, last.other, last.o_ind)[1]

\* ------------------------------------------------------------------ C24
\* the machine with every array cut down to its valid vectors: capacity = len
\* and no storage row at a position >= len
Trimmed(m) ==
    [heap |-> [b \in DOMAIN m.heap |->
                  IF \E o \in DOMAIN m.arr : m.arr[o].buf = b
                  THEN [m.heap[b] EXCEPT !.rows =
                            Data(m, CHOOSE o \in DOMAIN m.arr : m.arr[o].buf = b)]
                  ELSE m.heap[b]],
     arr |-> [o \in DOMAIN m.arr |-> [m.arr[o] EXCEPT !.nrows = m.arr[o].len]]]

\* the call recorded in `last`, made in machine state m
Again(m) ==
    CASE last.op = "copy" -> copy(m, last.self, last.other, last.ind)
      [] last.op = "append" -> append(m, last.self, last.other, last.o_ind, last.flag, TRUE)
      [] last.op = "remove" -> remove(m, last.self, last.ind)
      [] last.op = "replace" -> replace(m, last.self, last.other, last.ind, last.o_ind, last.flag)
      [] last.op = "almost_equal" -> almost_equal(m, last.self, last.other, last.ind, last.o_ind)
      [] last.op = "scal" -> scal(m, last.self, last.alpha, last.ind)
      [] last.op = "axpy" -> axpy(m, last.self, last.alpha, last.other, last.ind, last.o_ind)
      [] last.op = "dot" -> dot(m, last.self, last.other, last.flag, last.ind, last.o_ind)

SameOutcome(r) ==
    /\ r.err = last.err
    /\ r.ret = last.ret
    /\ \A o \in Slots : Data(St(r), o) = Data(Cur, o)

\* C24: storage beyond len is never observed: a call with valid non-negative
\* selectors on arrays that do not share storage has the outcome, the
\* returned value and the resulting valid vectors that the same call has on
\* arrays with the same valid vectors and no storage beyond len.
C24_SpareStorageIsNotObserved ==
    (/\ last.op \in {"copy", "append", "remove", "replace", "almost_equal", "scal", "axpy", "dot"}
     /\ last.o_ind # Lst(<<>>)
     /\ \A o, q \in Slots : o # q => last.pre.arr[o].buf # last.pre.arr[q].buf
     /\ NonNegative(last.ind) /\ NonNegative(last.o_ind)
     /\ check_ind(last.pre, last.self, last.ind)
     /\ (last.other \in Slots /\ last.op # "copy") => check_ind(last.pre, last.other, last.o_ind)) =>
        SameOutcome(Again(Trimmed(last.pre)))

\* ------------------------------------------------------------------ C25
\* C25: storage grows geometrically: an append that needs more room than the
\* spare capacity of self leaves self with a capacity above the new length
\* (room for later appends), not with exactly the new length.
C25_AppendGrowsGeometrically ==
    (/\ last.op = "append" /\ last.err = "none"
     /\ len_ind(last.pre, last.other, last.o_ind)
            > shape0(last.pre, last.self) - len(last.pre, last.self)) =>
        shape0(Cur, last.self) > len(Cur, last.self)

\* ------------------------------------------------------------------ C26
\* every array holds vectors of the one dimension d
OneDimension(m, d) == \A o \in DOMAIN m.arr : dim(m, o) = d

\* C26: every array satisfies 0 <= len <= capacity at all times, and a call
\* on arrays of one dimension, returned or raised, leaves every array with
\* that dimension (so that dim stays what the array was created with).
C26_LenWithinCapacityDimFixed ==
    /\ \A o \in Slots : 0 <= len(Cur, o) /\ len(Cur, o) <= shape0(Cur, o)
    /\ \A d \in Dims :
           (last.op # "idle" /\ OneDimension(last.pre, d)) => OneDimension(Cur, d)

\* remove() without selector on a two-dimensional array with vectors and spare capacity
C26_Witness ==
    /\ last.op = "remove" /\ last.ind = None /\ last.err = "none"
    /\ shape0(last.pre, last.self) > len(last.pre, last.self)
    /\ len(last.pre, last.self) > 0
    /\ shape0(Cur, last.self) = 0
    /\ dim(Cur, last.self) = 2

\* ------------------------------------------------------------------ C27
\* lines 104-122: the indices i (from 0) of the basis vectors the loops call
\* the operator's apply on: none for an empty basis, xrange(len(RB)) for an
\* operator without parameter dependence, xrange(old_RB_size, len(RB)) for
\* an affinely decomposed one
applied(d, RB, extends) ==
    IF Len(RB) = 0 THEN {}
    ELSE IF ~d.operator.parametric THEN {i - 1 : i \in 1..Len(RB)}
    ELSE {old_RB_size(extends) + i - 1 : i \in 1..Len(new_vectors(old_RB_size(extends), RB))}

\* C27: a reduction through extends, from `old` to `new` basis vectors,
\* applies the operator only to the basis vectors with index in [old, new)
\* and takes the residual vectors of the right-hand side from the old data,
\* with and without parameter dependence of the operator.
C27_ExtendsComputesOnlyTheNew ==
    (last.op = "reduce" /\ last.err = "none" /\ last.extends.kind = "reduction") =>
        /\ applied(disc.d, last.RB, last.extends) = Len(last.extends.RB)..(Len(last.RB) - 1)
        /\ last.ret.data.R_R = last.extends.data.R_R
        /\ last.ret.data.RR_R = last.extends.data.RR_R

\* ------------------------------------------------------------------ C28
\* C28: the estimator of a reduction extended from `old` to `new` basis
\* vectors, restricted to the first `old` vectors, has the estimator matrix
\* of the old reduction: side r_rhs + r_op * old, and the entry at
\* r_rhs + k*old + i of the old matrix is the entry at r_rhs + k*new + i of
\* the new one.
C28_RestrictionGivesOldMatrix ==
    (last.op = "restricted_to_subbasis" /\ last.dim = Len(last.old.RB)) =>
        LET old == Len(last.old.RB)
            new == Len(last.new.RB)
            rl == terms(disc.d.rhs)
            Mold == last.old.estimator_matrix
            Mnew == last.new.estimator_matrix
            at(p) == IF p <= rl THEN p ELSE rl + ((p - rl - 1) \div old) * new + ((p - rl - 1) % old) + 1
        IN  /\ last.err = "none"
            /\ Len(last.ret) = rl + terms(disc.d.operator) * old
            /\ last.ret = Mold
            /\ \A p, q \in 1..Len(Mold) : Mold[p][q] = Mnew[at(p)][at(q)]

\* a basis of one vector extended to two under an operator of two parametric
\* terms whose residual vectors differ, restricted to the first vector
C28_Witness ==
    /\ last.op = "restricted_to_subbasis" /\ last.err = "none"
    /\ last.dim = 1 /\ Len(last.old.RB) = 1 /\ Len(last.new.RB) = 2
    /\ disc.d.operator.parametric /\ Len(disc.d.operator.operators) = 2
    /\ Len(last.ret) = terms(disc.d.rhs) + 2
    /\ last.ret[Len(last.ret)][Len(last.ret)] # last.ret[Len(last.ret) - 1][Len(last.ret) - 1]

\* ------------------------------------------------------------------ C29
\* the call has passed the assertions of lines 61-63 and the check of line
\* 67 and goes on to build V and W
ReachesProjection ==
    /\ last.op = "bt"
    /\ last.r # None \/ last.tol # None
    /\ last.r # None => (0 < last.r.i /\ last.r.i < disc.d.n /\ ~too_large(last.r.i, disc.d))
    /\ last.method \in {"sr", "bfsr"}

\* C29: whenever bt goes on to build V and W, the order r it uses satisfies
\* 1 <= r < n and r <= min(len(cf), len(of)), also when only tol is given
\* and when there are fewer singular values than n, and V and W are built
\* from existing singular vectors only (the call does not fail on an index).
C29_OrderWithinFactors ==
    ReachesProjection =>
        /\ 1 <= order(disc.d, last.r, last.tol)
        /\ order(disc.d, last.r, last.tol) < disc.d.n
        /\ order(disc.d, last.r, last.tol) <= Min2(disc.d.cf, disc.d.of)
        /\ last.err = "none"

\* ------------------------------------------------------------------ the configuration
\* pymor/core/config.py.  An attribute name is the sequence of the words
\* that its underscores join: HAVE_SCIPY_LSMR is <<"HAVE", "SCIPY", "LSMR">>;
\* a package name likewise.  Python values are written as strings ("True",
\* "False", "None", a version string).  The configuration is held in `disc`:
\* dict is the instance dictionary of the Config object, env what the probe
\* of each package does in this installation, runs the number of times each
\* probe has been executed and done whether it has returned or raised
\* ImportError.

\* most executions of one probe
MaxRuns == 2

\* lines 34-54: the registry, three of its packages
_PACKAGES == {<<"NUMPY">>, <<"SCIPY">>, <<"SCIPY", "LSMR">>}

\* what a probe can do: return a version string (possibly empty), True,
\* False or None, or raise ImportError or another exception
Outcomes ==
    [kind : {"return"}, value : {"1.0", "", "True", "False", "None"}]
        \cup [kind : {"raise"}, value : {"ImportError", "ValueError"}]

\* 'HAVE_' + package and package + '_VERSION'
HAVE_(package) == <<"HAVE">> \o package
_VERSION(package) == package \o <<"VERSION">>

\* lines 59-62: Config.__init__ under Python `major`
Config(major) ==
    [n \in {<<"PY2">>, <<"PY3">>, <<"PYTHON", "VERSION">>} |->
        IF n = <<"PY2">> THEN (IF major = 2 THEN "True" ELSE "False")
        ELSE IF n = <<"PY3">> THEN (IF major = 3 THEN "True" ELSE "False")
        ELSE IF major = 2 THEN "2.7.11" ELSE "3.5.2"]

\* lines 70-75: the package a name asks about; <<>> when the name neither
\* starts with HAVE_ nor ends with _VERSION
package_of(name) ==
    IF Len(name) >= 2 /\ name[1] = "HAVE" THEN Tail(name)
    ELSE IF Len(name) >= 2 /\ name[Len(name)] = "VERSION" THEN SubSeq(name, 1, Len(name) - 1)
    ELSE <<>>

\* setattr(self, name, value)
setattr(dict, name, value) ==
    [n \in DOMAIN dict \cup {name} |-> IF n = name THEN value ELSE dict[n]]

\* a cache that stores what the probe gave also for a missing package
cache_keeps_version(dict, package, version) ==
    IF version # "None" /\ version # "False"
    THEN setattr(setattr(dict, HAVE_(package), "True"), _VERSION(package), version)
    ELSE setattr(setattr(dict, HAVE_(package), "False"), _VERSION(package), version)

\* lines 83-88
cache(dict, package, version) ==
    IF version # "None" /\ version # "False"
    THEN setattr(setattr(dict, HAVE_(package), "True"), _VERSION(package), version)
    ELSE setattr(setattr(dict, HAVE_(package), "False"), _VERSION(package), "None")

\* lines 78-81: version = _PACKAGES[package](), False on ImportError
probe(out) == IF out.kind = "return" THEN out.value ELSE "False"

\* lines 69-92: Config.__getattr__, called when `name` is not in the
\* instance dictionary; ran: the package whose probe was executed
__getattr__(c, name) ==
    IF package_of(name) = <<>> \/ package_of(name) \notin _PACKAGES
    THEN [dict |-> c.dict, err |-> "AttributeError", ret |-> "None", ran |-> <<>>]
    ELSE IF c.env[package_of(name)].kind = "raise" /\ c.env[package_of(name)].value # "ImportError"
    THEN [dict |-> c.dict, err |-> c.env[package_of(name)].value, ret |-> "None", ran |-> package_of(name)]
    ELSE [dict |-> cache(c.dict, package_of(name), probe(c.env[package_of(name)])),
          err |-> "none",
          ret |-> cache(c.dict, package_of(name), probe(c.env[package_of(name)]))[name],
          ran |-> package_of(name)]

\* config.<name>: the instance dictionary first, __getattr__ when the name
\* is not in it
getattr(c, name) ==
    IF name \in DOMAIN c.dict THEN [dict |-> c.dict, err |-> "none", ret |-> c.dict[name], ran |-> <<>>]
    ELSE __getattr__(c, name)

\* the names the caller reads: the two attributes of every registered
\* package, the attributes the constructor sets, and names of both patterns
\* for packages that are not registered
Names ==
    {HAVE_(P) : P \in _PACKAGES} \cup {_VERSION(P) : P \in _PACKAGES}
        \cup {<<"PY2">>, <<"PY3">>, <<"PYTHON", "VERSION">>, <<"HAVE", "PYTHON">>,
              <<"HAVE", "NUMPY", "VERSION">>, <<"NUMPY">>, <<"HAVE">>, <<"VERSION">>}

InitCfg ==
    /\ heap = Blank.heap
    /\ arr = Blank.arr
    /\ last = Idle
    /\ limit = 0
    /\ \E env \in [_PACKAGES -> Outcomes], major \in {2, 3} :
         disc = [kind |-> "config", env |-> env, dict |-> Config(major),
                 runs |-> [P \in _PACKAGES |-> 0], done |-> [P \in _PACKAGES |-> FALSE]]

\* the configuration after the read r
Read(c, r) ==
    IF r.ran = <<>> THEN [c EXCEPT !.dict = r.dict]
    ELSE [c EXCEPT !.dict = r.dict, !.runs[r.ran] = @ + 1, !.done[r.ran] = (r.err = "none")]

\* config.<name> for one of the names
GetAttr ==
    /\ last.op = "idle"
    /\ \E name \in Names :
         /\ Read(disc, getattr(disc, name)).runs \in [_PACKAGES -> 0..MaxRuns]
         /\ disc' = Read(disc, getattr(disc, name))
         /\ last' = [op |-> "getattr", name |-> name, err |-> getattr(disc, name).err,
                     ret |-> getattr(disc, name).ret, ran |-> getattr(disc, name).ran, pre |-> disc]
    /\ UNCHANGED <<heap, arr, limit>>

NextCfg ==
    \/ GetAttr
    \/ Return

SpecCfg == InitCfg /\ [][NextCfg]_vars

\* ------------------------------------------------------------------ C30
\* the cache of package P is consistent: none or both of its attributes are
\* cached, HAVE_<P> is True or False, and True exactly when <P>_VERSION is
\* not None
Consistent(dict, P) ==
    /\ HAVE_(P) \in DOMAIN dict <=> _VERSION(P) \in DOMAIN dict
    /\ HAVE_(P) \in DOMAIN dict =>
           /\ dict[HAVE_(P)] \in {"True", "False"}
           /\ dict[HAVE_(P)] = "True" <=> dict[_VERSION(P)] # "None"

\* what the claim says of the cache and of the probes
CacheAndProbes ==
    /\ \A P \in _PACKAGES : Consistent(disc.dict, P)
    /\ \A P \in _PACKAGES : disc.done[P] <=> HAVE_(P) \in DOMAIN disc.dict
    /\ last.op = "getattr" =>
           /\ \A n \in DOMAIN last.pre.dict : n \in DOMAIN disc.dict /\ disc.dict[n] = last.pre.dict[n]
           /\ \A P \in _PACKAGES : last.pre.done[P] => disc.runs[P] = last.pre.runs[P]
           /\ last.name \in DOMAIN last.pre.dict =>
                  last.err = "none" /\ last.ret = last.pre.dict[last.name]

\* the name is HAVE_<P> or <P>_VERSION of a registered package
OfRegistered(name) == \E P \in _PACKAGES : name = HAVE_(P) \/ name = _VERSION(P)

====
